---- MODULE Spec2Model ----
(***************************************************************************)
(* BRICK multi-channel event ingestion: the MCP server (JSON-RPC over      *)
(* HTTP/SSE), the git polling watcher and the debounced file watcher, as   *)
(* state machines translated from the CommonJS sources.                    *)
(*                                                                         *)
(* Each component has its own next-state relations and specifications:     *)
(* SpecMcp, SpecHandler, SpecLife, SpecLive, SpecWire, SpecMessage,        *)
(* SpecHealth, SpecBatch and SpecRestart for the MCP server, SpecGit and   *)
(* SpecEmptyRepo for the git watcher, SpecFw, SpecFwApi, SpecFwFilter and  *)
(* SpecDrain for the file watcher, SpecUi for the renderer's listeners.    *)
(* The three run in one Electron main process but share no state, so each  *)
(* is explored on its own; SpecStop, SpecListeners and SpecLogs explore    *)
(* what the components have in common.                                     *)
(***************************************************************************)
EXTENDS Integers, Sequences, FiniteSets, TLC

VARIABLES
    \* ---- MCP server (mcp-server module state) ----
    server,             \* module variable `server`: "null" | "listening" | "closing"
    serverPort,         \* module variable `serverPort`
    sessions,           \* Map sessionId -> [sseRes]
    uuidCount,          \* number of crypto.randomUUID() results handed out
    streams,            \* push streams ever opened (index = stream id)
    progressListeners,  \* Set of callbacks, in insertion order
    progressLog,        \* array of ProgressEvents
    posts,              \* POST requests whose body is still being read
    lastOp,             \* history: the exchange or call handled by the last step
    \* ---- git watcher (git-watcher module state and its environment) ----
    head,               \* per repository: number of commits on the current branch
    watchState,         \* module variable `watchState`
    timers,             \* interval timers that are set and not cleared
    timerCount,         \* number of setInterval() results handed out
    commitListeners,    \* Set of callbacks, in insertion order
    commitLog,          \* array of CommitEvents
    ticks,              \* pollForCommits calls suspended at an await
    starts,             \* startWatching calls suspended at an await
    gitHist,            \* history: the startWatching calls made and what ran meanwhile
    lastGit,            \* history: the call or tick that ended in the last step
    \* ---- file watcher (file-watcher module state and its timers) ----
    watchers,           \* Map folderPath -> WatcherEntry
    fwTimers,           \* debounce Timeouts that are scheduled
    changeListeners,    \* Set of callbacks, in insertion order
    changeLog,          \* array of FileChangeEvents
    customIgnorePatterns, \* module variable `customIgnorePatterns`
    fwHist,             \* history: the notifications accepted for one path
    lastFw,             \* history: the call or callback of the last step
    \* ---- renderer (the services' subscriptions through the preload bridge) ----
    ipcListeners,       \* per IPC channel: the callbacks ipcRenderer.on() added
    unsubscribes,       \* the unsubscribe functions the services have returned
    lastUi              \* history: the call or delivery of the last step

mcpVars == << server, serverPort, sessions, uuidCount, streams, progressListeners,
              progressLog, posts, lastOp >>

gitVars == << head, watchState, timers, timerCount, commitListeners, commitLog, ticks,
              starts, gitHist, lastGit >>

fwVars == << watchers, fwTimers, changeListeners, changeLog, customIgnorePatterns,
             fwHist, lastFw >>

uiVars == << ipcListeners, unsubscribes, lastUi >>

vars == << mcpVars, gitVars, fwVars, uiVars >>

(***************************************************************************)
(* Bounds of the exploration.                                              *)
(***************************************************************************)
MaxUuid     == 2    \* sessions minted in one run
MaxStreams  == 2    \* push streams opened in one run
MaxPosts    == 1    \* POST requests awaiting their body at the same time
MaxBatch    == 2    \* entries of a JSON-RPC batch
MaxProgress == 1    \* length of the progress log

MaxCommits  == 2    \* commits that land in one run
MaxTicks    == 2    \* poll ticks in progress at the same time
MaxStarts   == 2    \* startWatching calls in one run
MaxCommitLog == 2   \* length of the commit log
MaxPending  == 2    \* paths pending for one folder
MaxTimers   == 2    \* Timeout objects in use at the same time
MaxIpcListeners == 2   \* listeners of one IPC channel
MaxBurst    == 3    \* notifications of one path that the history follows
MaxChangeLog == 2   \* length of the change log

Callbacks == {"cbA", "cbB"}     \* callbacks a caller may hand to on<Event>
Throwing  == {"cbB"}            \* the callbacks that throw whenever they are invoked
Ports     == {3777}

(***************************************************************************)
(* Generic helpers.                                                        *)
(***************************************************************************)
Range(s) == {s[i] : i \in DOMAIN s}

SeqWithout(s, x) == SelectSeq(s, LAMBDA y : y # x)

\* Set.add on an insertion-ordered Set
SetAdd(s, x) == IF x \in Range(s) THEN s ELSE Append(s, x)

RemoveAt(s, i) == SubSeq(s, 1, i - 1) \o SubSeq(s, i + 1, Len(s))

Occurrences(s, x) == Cardinality({i \in DOMAIN s : s[i] = x})

\* Map.delete / Map.set on a function with a finite domain
MapDelete(m, k) == [x \in (DOMAIN m) \ {k} |-> m[x]]
MapSet(m, k, v) == [x \in (DOMAIN m) \cup {k} |-> IF x = k THEN v ELSE m[x]]
EmptyMap == [x \in {} |-> 0]

(***************************************************************************)
(* JavaScript values carried by a JSON-RPC request.                        *)
(***************************************************************************)
Undef     == [t |-> "undefined", v |-> ""]
Str(s)    == [t |-> "string", v |-> s]
Num(n)    == [t |-> "number", v |-> n]

\* !x of JavaScript
Falsy(x) ==
    \/ x.t \in {"undefined", "null"}
    \/ x.t = "string" /\ x.v = ""
    \/ x.t = "number" /\ x.v = "0"

\* A parsed JSON value handed to handleMcpRequest.  json is the kind of the
\* value; the other fields are read only when it is an object.
\*   params:    "undefined" | "object"
\*   arguments: "undefined" | "object" | "string"
Req(json, id, method, params, name, arguments, summary) ==
    [json |-> json, id |-> id, method |-> method, params |-> params,
     name |-> name, arguments |-> arguments, summary |-> summary]

ReqObj(id, method) == Req("object", id, method, "undefined", "", "undefined", Undef)
ToolCall(id, name, arguments, summary) ==
    Req("object", id, "tools/call", "object", name, arguments, summary)

rInitialize  == ReqObj(1, "initialize")
rInitialized == ReqObj(0, "notifications/initialized")
rCancelled   == ReqObj(0, "notifications/cancelled")
rPing        == ReqObj(2, "ping")
rToolsList   == ReqObj(3, "tools/list")
rUnknown     == ReqObj(4, "resources/list")
rLogFixed    == ToolCall(5, "log_progress", "object", Str("fixed bug"))
rLogTests    == ToolCall(6, "log_progress", "object", Str("added tests"))
rOtherTool   == ToolCall(7, "run_shell", "object", Str("fixed bug"))
rNoSummary   == ToolCall(8, "log_progress", "object", Undef)
rEmptySum    == ToolCall(9, "log_progress", "object", Str(""))
rNumSummary  == ToolCall(10, "log_progress", "object", Num("7"))
rNoArgs      == ToolCall(11, "log_progress", "undefined", Undef)
rStrArgs     == ToolCall(12, "log_progress", "string", Undef)
rNoParams    == Req("object", 13, "tools/call", "undefined", "", "undefined", Undef)
rNull        == Req("null", 0, "", "undefined", "", "undefined", Undef)
rNumber      == Req("number", 0, "", "undefined", "", "undefined", Undef)

SingleSamples ==
    { rInitialize, rInitialized, rCancelled, rPing, rToolsList, rUnknown,
      rLogFixed, rLogTests, rOtherTool, rNoSummary, rEmptySum, rNumSummary,
      rNoArgs, rStrArgs, rNoParams, rNull, rNumber }

\* the values sent over the transports: one of each kind of outcome
\* (response, no response, logged event, error, TypeError)
TransportSamples == { rInitialize, rInitialized, rLogFixed, rLogTests, rEmptySum, rNull }

BatchSamples == { rInitialized, rLogFixed, rEmptySum, rNull }

\* A request body as the client sent it: text that is not JSON, one JSON
\* value, or a JSON array of values.
Body(valid, isArray, items) == [valid |-> valid, isArray |-> isArray, items |-> items]

BatchesOf(n) == UNION {[1..k -> BatchSamples] : k \in 0..n}

Bodies ==
    {Body(FALSE, FALSE, << >>)}
    \cup {Body(TRUE, FALSE, << r >>) : r \in TransportSamples}
    \cup {Body(TRUE, TRUE, b) : b \in BatchesOf(MaxBatch)}

(***************************************************************************)
(* MCP server: JSON-RPC helpers and the request handler.                   *)
(***************************************************************************)
Payload(kind, text) == [kind |-> kind, text |-> text]

jsonRpcResponse(id, result) == [t |-> "result", id |-> id, code |-> 0, body |-> result]

jsonRpcError(id, code, message) == [t |-> "error", id |-> id, code |-> code, body |-> message]

\* the null that handleMcpRequest returns for a notification
NullResponse == [t |-> "null", id |-> 0, code |-> 0, body |-> Payload("", "")]

ProgressEvent(summary, sessionId) == [summary |-> summary, sessionId |-> sessionId]

\* the listener loop without its try/catch: the first exception ends the loop
RECURSIVE notifyProgressUncaught(_, _)
notifyProgressUncaught(ls, throwers) ==
    IF ls = << >> THEN << >>
    ELSE IF Head(ls) \in throwers THEN << Head(ls) >>
    ELSE << Head(ls) >> \o notifyProgressUncaught(Tail(ls), throwers)

\* for (const listener of progressListeners) { try { listener(event) } catch {} }
\* ls: the listeners still to call.  The result: the callbacks entered, in order.
RECURSIVE notifyProgress(_, _)
notifyProgress(ls, throwers) ==
    IF ls = << >> THEN << >>
    ELSE << Head(ls) >> \o notifyProgress(Tail(ls), throwers)

\* The outcome of one handleMcpRequest call: the response (or the TypeError
\* of destructuring null), the log after it and, for each event it logged,
\* the callbacks it invoked.
Handled(threw, resp, log, invoked) ==
    [threw |-> threw, resp |-> resp, log |-> log, invoked |-> invoked]

\* toolsCall without the `!summary` test of line 108: an empty summary is logged
toolsCallEmptyAccepted(request, sessionId, log, listeners, throwers) ==
    LET id       == request.id
        toolName == IF request.params = "object" THEN request.name ELSE ""
        summary  == IF request.params = "object" /\ request.arguments = "object"
                    THEN request.summary ELSE Undef
    IN  IF toolName # "log_progress"
        THEN Handled(FALSE, jsonRpcError(id, -32602, Payload("Unknown tool", toolName)),
                     log, << >>)
        ELSE IF summary.t # "string"
        THEN Handled(FALSE,
                     jsonRpcError(id, -32602, Payload("Missing or invalid summary argument", "")),
                     log, << >>)
        ELSE Handled(FALSE,
                     jsonRpcResponse(id, Payload("Progress logged", summary.v)),
                     Append(log, ProgressEvent(summary.v, sessionId)),
                     << notifyProgress(listeners, throwers) >>)

\* case 'tools/call'
toolsCall(request, sessionId, log, listeners, throwers) ==
    LET id       == request.id
        toolName == IF request.params = "object" THEN request.name ELSE ""
        \* params?.arguments || {} ; a string has no summary property
        summary  == IF request.params = "object" /\ request.arguments = "object"
                    THEN request.summary ELSE Undef
    IN  IF toolName # "log_progress"
        THEN Handled(FALSE, jsonRpcError(id, -32602, Payload("Unknown tool", toolName)),
                     log, << >>)
        ELSE IF Falsy(summary) \/ summary.t # "string"
        THEN Handled(FALSE,
                     jsonRpcError(id, -32602, Payload("Missing or invalid summary argument", "")),
                     log, << >>)
        ELSE Handled(FALSE,
                     jsonRpcResponse(id, Payload("Progress logged", summary.v)),
                     Append(log, ProgressEvent(summary.v, sessionId)),
                     << notifyProgress(listeners, throwers) >>)

handleMcpRequest(request, sessionId, log, listeners, throwers) ==
    IF request.json = "null"
    THEN \* const { id, method, params } = null  throws a TypeError
         Handled(TRUE, NullResponse, log, << >>)
    ELSE
    LET id     == IF request.json = "object" THEN request.id ELSE 0
        method == IF request.json = "object" THEN request.method ELSE ""
    IN  CASE method = "initialize" ->
               Handled(FALSE, jsonRpcResponse(id, Payload("initialize", "2024-11-05")),
                       log, << >>)
          [] method \in {"notifications/initialized", "notifications/cancelled"} ->
               Handled(FALSE, NullResponse, log, << >>)
          [] method = "ping" ->
               Handled(FALSE, jsonRpcResponse(id, Payload("empty", "")), log, << >>)
          [] method = "tools/list" ->
               Handled(FALSE, jsonRpcResponse(id, Payload("tools", "log_progress")),
                       log, << >>)
          [] method = "tools/call" ->
               toolsCall(request, sessionId, log, listeners, throwers)
          [] OTHER ->
               Handled(FALSE, jsonRpcError(id, -32601, Payload("Method not found", method)),
                       log, << >>)

\* the loop without its `response !== null` test: a notification's null is
\* pushed like a response
RECURSIVE handleBatchKeepingNulls(_, _, _, _, _)
handleBatchKeepingNulls(requests, sessionId, log, listeners, throwers) ==
    IF requests = << >>
    THEN [responses |-> << >>, log |-> log, invoked |-> << >>, threw |-> FALSE]
    ELSE LET h == handleMcpRequest(Head(requests), sessionId, log, listeners, throwers)
         IN  IF h.threw
             THEN [responses |-> << >>, log |-> h.log, invoked |-> h.invoked, threw |-> TRUE]
             ELSE LET rest == handleBatchKeepingNulls(Tail(requests), sessionId, h.log,
                                                      listeners, throwers)
                  IN  [responses |-> << h.resp >> \o rest.responses, log |-> rest.log,
                       invoked |-> h.invoked \o rest.invoked, threw |-> rest.threw]

\* for (const request of requests) { response = handleMcpRequest(...) ... }
\* The loop ends at the first request whose handling throws.  The result: the
\* responses pushed (null ones skipped), the log after the loop and the
\* callbacks invoked for each event logged.
RECURSIVE handleBatch(_, _, _, _, _)
handleBatch(requests, sessionId, log, listeners, throwers) ==
    IF requests = << >>
    THEN [responses |-> << >>, log |-> log, invoked |-> << >>, threw |-> FALSE]
    ELSE LET h == handleMcpRequest(Head(requests), sessionId, log, listeners, throwers)
             pushed == IF h.resp.t = "null" THEN << >> ELSE << h.resp >>
         IN  IF h.threw
             THEN [responses |-> << >>, log |-> h.log, invoked |-> h.invoked, threw |-> TRUE]
             ELSE LET rest == handleBatch(Tail(requests), sessionId, h.log, listeners, throwers)
                  IN  [responses |-> pushed \o rest.responses, log |-> rest.log,
                       invoked |-> h.invoked \o rest.invoked, threw |-> rest.threw]

(***************************************************************************)
(* MCP server: state.                                                      *)
(***************************************************************************)
NoStream == 0
NoHeader == 0
\* a session id no randomUUID() call of the run returns
UnknownId == MaxUuid + 1

NoBody == Body(FALSE, FALSE, << >>)

\* A POST request whose body is being read: the route, the session id the
\* handler holds and, as history, the session id the client presented,
\* whether the registry held that id on arrival and whether the handler
\* minted a session.
Post(path, sid, header, known, minted) ==
    [path |-> path, sid |-> sid, header |-> header, known |-> known, minted |-> minted]

NoPost == Post("", 0, NoHeader, FALSE, FALSE)

\* History record of the exchange handled by the last step: which operation,
\* the session it ran under, the HTTP status ("none": the handler failed
\* without replying) or the call's outcome, the Mcp-Session-Id header of the
\* reply (0: absent), the body received, the reply's JSON-RPC responses and
\* whether they were sent as an array, the push stream a response was written
\* to, the length of the log and the listeners before the exchange, the
\* callbacks invoked for each event it logged, and the POST request it
\* completed.
Op(op, sid, status, sidHeader, body, reply, replyIsArray, stream, invoked) ==
    [op |-> op, sid |-> sid, status |-> status, sidHeader |-> sidHeader, body |-> body,
     reply |-> reply, replyIsArray |-> replyIsArray, stream |-> stream,
     logBefore |-> Len(progressLog), listenersAt |-> progressListeners,
     invoked |-> invoked, post |-> NoPost]

\* the record of an exchange that completes the POST request p
PostOp(p, op) == [op EXCEPT !.post = p]

SimpleOp(op, sid, status, sidHeader, reply) ==
    Op(op, sid, status, sidHeader, NoBody, reply, FALSE, NoStream, << >>)

\* a step that handles no exchange
NoOp == [op |-> "none", sid |-> 0, status |-> "none", sidHeader |-> NoHeader,
         body |-> NoBody, reply |-> << >>, replyIsArray |-> FALSE, stream |-> NoStream,
         logBefore |-> 0, listenersAt |-> << >>, invoked |-> << >>, post |-> NoPost]

NoDir == "nodir"            \* a path at which no directory exists

\* the state of the other components, which no MCP handler touches
notMcpVars == << gitVars, fwVars, uiVars >>

InitMcp ==
    /\ server = "null"
    /\ serverPort = 3777
    /\ sessions = EmptyMap
    /\ uuidCount = 0
    /\ streams = << >>
    /\ progressListeners = << >>
    /\ progressLog = << >>
    /\ posts = << >>
    /\ lastOp = NoOp

\* The session header values a client can present: none, an id the server
\* handed out earlier, or an id it never handed out.
Headers == {NoHeader} \cup (1..uuidCount) \cup {UnknownId}

Accepting == server = "listening"

(***************************************************************************)
(* MCP server: public API (startServer, stopServer, onProgress).           *)
(***************************************************************************)
\* startServer(port) without the rejection of `if (server)`
startServerReplacing(port, bindOk) ==
    /\ serverPort' = port
    /\ server' = IF bindOk THEN "listening" ELSE "null"
    /\ lastOp' = SimpleOp("startServer", 0,
                          IF bindOk THEN "resolved" ELSE "rejected", NoHeader, << >>)
    /\ UNCHANGED << sessions, uuidCount, streams, progressListeners, progressLog, posts >>
    /\ UNCHANGED notMcpVars

\* startServer(port).  server.listen() reports 'listening' or 'error' from
\* process.nextTick, before any other handler of the process can run, so the
\* call and its outcome are one step.  bindOk: the port could be bound.
startServer(port, bindOk) ==
    /\ IF server # "null"
       THEN \* reject(new Error('MCP server is already running'))
            /\ UNCHANGED << server, serverPort >>
            /\ lastOp' = SimpleOp("startServer", 0, "rejected", NoHeader, << >>)
       ELSE /\ serverPort' = port
            /\ server' = IF bindOk THEN "listening" ELSE "null"
            /\ lastOp' = SimpleOp("startServer", 0,
                                  IF bindOk THEN "resolved" ELSE "rejected", NoHeader, << >>)
    /\ UNCHANGED << sessions, uuidCount, streams, progressListeners, progressLog, posts >>
    /\ UNCHANGED notMcpVars

\* session.sseRes.end() for every session that holds a stream
EndSessionStreams ==
    [k \in DOMAIN streams |->
        IF /\ \E id \in DOMAIN sessions : sessions[id].sseRes = k
           /\ streams[k].state = "open"
        THEN [streams[k] EXCEPT !.state = "ending"]
        ELSE streams[k]]

\* stopServer() without the early return of `if (!server)`
stopServerUnguarded ==
    /\ streams' = EndSessionStreams
    /\ sessions' = EmptyMap
    /\ server' = "closing"
    /\ lastOp' = SimpleOp("stopServer", 0, "pending", NoHeader, << >>)
    /\ UNCHANGED << serverPort, uuidCount, progressListeners, progressLog, posts >>
    /\ UNCHANGED notMcpVars

\* stopServer(): the synchronous part.  The promise resolves in closeDone.
stopServer ==
    /\ IF server = "null"
       THEN /\ UNCHANGED << server, sessions, streams >>
            /\ lastOp' = SimpleOp("stopServer", 0, "resolved", NoHeader, << >>)
       ELSE /\ streams' = EndSessionStreams
            /\ sessions' = EmptyMap
            /\ server' = "closing"
            /\ lastOp' = SimpleOp("stopServer", 0, "pending", NoHeader, << >>)
    /\ UNCHANGED << serverPort, uuidCount, progressListeners, progressLog, posts >>
    /\ UNCHANGED notMcpVars

\* server.close() calls back once no connection is left open.
closeDone ==
    /\ server = "closing"
    /\ posts = << >>
    /\ \A k \in DOMAIN streams : streams[k].state = "closed"
    /\ server' = "null"
    /\ lastOp' = SimpleOp("closeDone", 0, "resolved", NoHeader, << >>)
    /\ UNCHANGED << serverPort, sessions, uuidCount, streams, progressListeners,
                    progressLog, posts >>
    /\ UNCHANGED notMcpVars

\* onProgress(callback)
onProgress(callback) ==
    /\ progressListeners' = SetAdd(progressListeners, callback)
    /\ lastOp' = NoOp
    /\ UNCHANGED << server, serverPort, sessions, uuidCount, streams, progressLog, posts >>
    /\ UNCHANGED notMcpVars

\* the unsubscribe function onProgress returned
offProgress(callback) ==
    /\ callback \in Range(progressListeners)
    /\ progressListeners' = SeqWithout(progressListeners, callback)
    /\ lastOp' = NoOp
    /\ UNCHANGED << server, serverPort, sessions, uuidCount, streams, progressLog, posts >>
    /\ UNCHANGED notMcpVars

(***************************************************************************)
(* MCP server: handleRequest, one action per route and suspension point.   *)
(***************************************************************************)
Session(sseRes) == [sseRes |-> sseRes]

\* getOrCreateSession(req): the session id, and the registry after the call
getOrCreateSession(header) ==
    IF header # NoHeader /\ header \in DOMAIN sessions
    THEN [sessionId |-> header, sessions |-> sessions, minted |-> FALSE]
    ELSE [sessionId |-> uuidCount + 1,
          sessions  |-> MapSet(sessions, uuidCount + 1, Session(NoStream)),
          minted    |-> TRUE]

Stream(kind, sid) == [kind |-> kind, sid |-> sid, state |-> "open", keepalive |-> kind = "sse"]

\* POST /mcp, up to `await readBody(req)`
postMcpArrive(header) ==
    /\ Accepting
    /\ Len(posts) < MaxPosts
    /\ LET g == getOrCreateSession(header)
       IN  /\ g.minted => uuidCount < MaxUuid
           /\ sessions' = g.sessions
           /\ uuidCount' = IF g.minted THEN uuidCount + 1 ELSE uuidCount
           /\ posts' = Append(posts, Post("/mcp", g.sessionId, header,
                                          header \in DOMAIN sessions, g.minted))
    /\ lastOp' = NoOp
    /\ UNCHANGED << server, serverPort, streams, progressListeners, progressLog >>
    /\ UNCHANGED notMcpVars

ParseError == jsonRpcError(0, -32700, Payload("Parse error", ""))

\* POST /mcp without the try/catch around JSON.parse: a body that is not
\* JSON makes the handler fail without a reply
postMcpBodyUnparsed(i, body) ==
    /\ i \in DOMAIN posts
    /\ posts[i].path = "/mcp"
    /\ posts' = RemoveAt(posts, i)
    /\ LET sessionId == posts[i].sid
           done      == handleBatch(body.items, sessionId, progressLog,
                                    progressListeners, Throwing)
       IN  IF ~body.valid
           THEN /\ lastOp' = PostOp(posts[i],
                                Op("POST /mcp", sessionId, "none", NoHeader, body,
                                   << >>, FALSE, NoStream, << >>))
                /\ UNCHANGED progressLog
           ELSE /\ Len(done.log) <= MaxProgress
                /\ progressLog' = done.log
                /\ lastOp' = PostOp(posts[i],
                     IF done.threw
                     THEN Op("POST /mcp", sessionId, "none", NoHeader, body, << >>, FALSE,
                             NoStream, done.invoked)
                     ELSE IF done.responses = << >>
                     THEN Op("POST /mcp", sessionId, "202", sessionId, body, << >>, FALSE,
                             NoStream, done.invoked)
                     ELSE Op("POST /mcp", sessionId, "200", sessionId, body, done.responses,
                             ~(Len(done.responses) = 1 /\ ~body.isArray), NoStream,
                             done.invoked))
    /\ UNCHANGED << server, serverPort, sessions, uuidCount, streams, progressListeners >>
    /\ UNCHANGED notMcpVars

\* POST /mcp, from the body's arrival to the reply
postMcpBody(i, body) ==
    /\ i \in DOMAIN posts
    /\ posts[i].path = "/mcp"
    /\ posts' = RemoveAt(posts, i)
    /\ LET sessionId == posts[i].sid
           done      == handleBatch(body.items, sessionId, progressLog,
                                    progressListeners, Throwing)
       IN  IF ~body.valid
           THEN /\ lastOp' = PostOp(posts[i],
                                Op("POST /mcp", sessionId, "400", NoHeader, body,
                                   << ParseError >>, FALSE, NoStream, << >>))
                /\ UNCHANGED progressLog
           ELSE /\ Len(done.log) <= MaxProgress
                /\ progressLog' = done.log
                /\ lastOp' = PostOp(posts[i],
                     IF done.threw
                     THEN \* the async handler rejects: nothing is written to res
                          Op("POST /mcp", sessionId, "none", NoHeader, body, << >>, FALSE,
                             NoStream, done.invoked)
                     ELSE IF done.responses = << >>
                     THEN Op("POST /mcp", sessionId, "202", sessionId, body, << >>, FALSE,
                             NoStream, done.invoked)
                     ELSE Op("POST /mcp", sessionId, "200", sessionId, body, done.responses,
                             ~(Len(done.responses) = 1 /\ ~body.isArray), NoStream,
                             done.invoked))
    /\ UNCHANGED << server, serverPort, sessions, uuidCount, streams, progressListeners >>
    /\ UNCHANGED notMcpVars

\* the body of the health check's reply
HealthBody ==
    [t |-> "health", status |-> "running",
     activeSessions |-> Cardinality(DOMAIN sessions),
     totalProgressEvents |-> Len(progressLog)]

\* a health check that goes through getOrCreateSession
getHealthMinting ==
    /\ Accepting
    /\ uuidCount < MaxUuid
    /\ sessions' = MapSet(sessions, uuidCount + 1, Session(NoStream))
    /\ uuidCount' = uuidCount + 1
    /\ lastOp' = Op("GET /", 0, "200", NoHeader, NoBody, << HealthBody >>, FALSE,
                    NoStream, << >>)
    /\ UNCHANGED << server, serverPort, streams, progressListeners, progressLog, posts >>
    /\ UNCHANGED notMcpVars

\* GET /
getHealth ==
    /\ Accepting
    /\ lastOp' = Op("GET /", 0, "200", NoHeader, NoBody, << HealthBody >>, FALSE,
                    NoStream, << >>)
    /\ UNCHANGED << server, serverPort, sessions, uuidCount, streams, progressListeners,
                    progressLog, posts >>
    /\ UNCHANGED notMcpVars

\* GET /mcp
getMcp(header, acceptsEventStream) ==
    /\ Accepting
    /\ IF ~acceptsEventStream
       THEN /\ lastOp' = SimpleOp("GET /mcp", 0, "406", NoHeader, << >>)
            /\ UNCHANGED << sessions, uuidCount, streams >>
       ELSE LET g == getOrCreateSession(header)
                k == Len(streams) + 1
            IN  /\ Len(streams) < MaxStreams
                /\ g.minted => uuidCount < MaxUuid
                /\ uuidCount' = IF g.minted THEN uuidCount + 1 ELSE uuidCount
                /\ streams' = Append(streams, Stream("mcp", g.sessionId))
                /\ sessions' = [g.sessions EXCEPT ![g.sessionId].sseRes = k]
                /\ lastOp' = SimpleOp("GET /mcp", g.sessionId, "200", g.sessionId, << >>)
    /\ UNCHANGED << server, serverPort, progressListeners, progressLog, posts >>
    /\ UNCHANGED notMcpVars

\* DELETE /mcp
deleteMcp(header) ==
    /\ Accepting
    /\ sessions' = IF header # NoHeader THEN MapDelete(sessions, header) ELSE sessions
    /\ lastOp' = SimpleOp("DELETE /mcp", header, "204", NoHeader, << >>)
    /\ UNCHANGED << server, serverPort, uuidCount, streams, progressListeners,
                    progressLog, posts >>
    /\ UNCHANGED notMcpVars

\* GET /sse
getSse ==
    /\ Accepting
    /\ uuidCount < MaxUuid
    /\ Len(streams) < MaxStreams
    /\ LET sessionId == uuidCount + 1
           k == Len(streams) + 1
       IN  /\ uuidCount' = sessionId
           /\ sessions' = MapSet(sessions, sessionId, Session(k))
           /\ streams' = Append(streams, Stream("sse", sessionId))
           /\ lastOp' = SimpleOp("GET /sse", sessionId, "200", NoHeader, << >>)
    /\ UNCHANGED << server, serverPort, progressListeners, progressLog, posts >>
    /\ UNCHANGED notMcpVars

\* a push stream closes and no 'close' handler runs
streamCloseUnhandled(k) ==
    /\ k \in DOMAIN streams
    /\ streams[k].state \in {"open", "ending"}
    /\ streams' = [streams EXCEPT ![k].state = "closed"]
    /\ lastOp' = NoOp
    /\ UNCHANGED << server, serverPort, sessions, uuidCount, progressListeners,
                    progressLog, posts >>
    /\ UNCHANGED notMcpVars

\* req.on('close') of a push stream: the client went away, or the server
\* ended the response and the connection closed.
streamClose(k) ==
    /\ k \in DOMAIN streams
    /\ streams[k].state \in {"open", "ending"}
    /\ streams' = [streams EXCEPT ![k].state = "closed", ![k].keepalive = FALSE]
    /\ sessions' =
         LET sid == streams[k].sid
         IN  IF streams[k].kind = "sse"
             THEN MapDelete(sessions, sid)
             ELSE IF sid \in DOMAIN sessions
                  THEN [sessions EXCEPT ![sid].sseRes = NoStream]
                  ELSE sessions
    /\ lastOp' = NoOp
    /\ UNCHANGED << server, serverPort, uuidCount, progressListeners, progressLog, posts >>
    /\ UNCHANGED notMcpVars

\* the client of an open push stream goes away
clientClose(k) ==
    /\ k \in DOMAIN streams
    /\ streams[k].state = "open"
    /\ streamClose(k)

\* the connection of a push stream the server ended closes
responseClose(k) ==
    /\ k \in DOMAIN streams
    /\ streams[k].state = "ending"
    /\ streamClose(k)

InvalidSession == jsonRpcError(0, -32600, Payload("Invalid or missing sessionId", ""))

\* POST /message without the check of the sessionId
postMessageArriveUnchecked(sessionId) ==
    /\ Accepting
    /\ Len(posts) < MaxPosts
    /\ posts' = Append(posts, Post("/message", sessionId, sessionId, TRUE, FALSE))
    /\ lastOp' = NoOp
    /\ UNCHANGED << server, serverPort, sessions, uuidCount, streams, progressListeners,
                    progressLog >>
    /\ UNCHANGED notMcpVars

\* POST /message?sessionId=..., up to `await readBody(req)`
postMessageArrive(sessionId) ==
    /\ Accepting
    /\ IF sessionId = NoHeader \/ sessionId \notin DOMAIN sessions
       THEN /\ lastOp' = SimpleOp("POST /message", sessionId, "400", NoHeader,
                                  << InvalidSession >>)
            /\ UNCHANGED posts
       ELSE /\ Len(posts) < MaxPosts
            /\ posts' = Append(posts, Post("/message", sessionId, sessionId, TRUE, FALSE))
            /\ lastOp' = NoOp
    /\ UNCHANGED << server, serverPort, sessions, uuidCount, streams, progressListeners,
                    progressLog >>
    /\ UNCHANGED notMcpVars

\* The value handleMcpRequest receives from POST /message: the parsed body
\* itself, which is an array when the client sent a batch.
MessageRequest(body) ==
    IF body.isArray \/ ~body.valid
    THEN Req("array", 0, "", "undefined", "", "undefined", Undef)
    ELSE body.items[1]

\* POST /message, from the body's arrival to the reply
postMessageBody(i, body) ==
    /\ i \in DOMAIN posts
    /\ posts[i].path = "/message"
    /\ posts' = RemoveAt(posts, i)
    /\ LET sessionId == posts[i].sid
           h         == handleMcpRequest(MessageRequest(body), sessionId, progressLog,
                                         progressListeners, Throwing)
           sseRes    == IF sessionId \in DOMAIN sessions
                        THEN sessions[sessionId].sseRes ELSE NoStream
           reply     == IF h.resp.t = "null" THEN << >> ELSE << h.resp >>
       IN  IF ~body.valid
           THEN /\ lastOp' = PostOp(posts[i],
                                Op("POST /message", sessionId, "400", NoHeader, body,
                                   << ParseError >>, FALSE, NoStream, << >>))
                /\ UNCHANGED progressLog
           ELSE /\ Len(h.log) <= MaxProgress
                /\ progressLog' = h.log
                /\ lastOp' = PostOp(posts[i],
                     IF h.threw
                     THEN Op("POST /message", sessionId, "none", NoHeader, body, << >>,
                             FALSE, NoStream, h.invoked)
                     ELSE IF sseRes # NoStream
                     THEN \* session.sseRes.write(...); res.writeHead(202)
                          Op("POST /message", sessionId, "202", NoHeader, body, reply, FALSE,
                             IF reply = << >> THEN NoStream ELSE sseRes, h.invoked)
                     ELSE Op("POST /message", sessionId,
                             IF reply = << >> THEN "202" ELSE "200", NoHeader, body, reply,
                             FALSE, NoStream, h.invoked))
    /\ UNCHANGED << server, serverPort, sessions, uuidCount, streams, progressListeners >>
    /\ UNCHANGED notMcpVars

\* The runs that explore the request handling: every body on both POST
\* routes, both callbacks, and one push stream opened in a run.
NextMcp ==
    \/ \E port \in Ports, bindOk \in BOOLEAN : startServer(port, bindOk)
    \/ stopServer
    \/ closeDone
    \/ \E c \in Callbacks : onProgress(c)
    \/ \E c \in Callbacks : offProgress(c)
    \/ \E h \in Headers : postMcpArrive(h)
    \/ \E i \in 1..MaxPosts, b \in Bodies : postMcpBody(i, b)
    \/ \E h \in Headers, a \in BOOLEAN : (a => streams = << >>) /\ getMcp(h, a)
    \/ \E h \in Headers : deleteMcp(h)
    \/ streams = << >> /\ getSse
    \/ \E k \in 1..MaxStreams : streamClose(k)
    \/ \E q \in Headers : postMessageArrive(q)
    \/ \E i \in 1..MaxPosts, b \in Bodies : postMessageBody(i, b)

\* The runs that explore POST /message: sessions and push streams of both
\* kinds opened, replaced, deleted and closed while a body is being read, a
\* stop, a throwing listener, and one body of each kind (not JSON, a
\* request, a notification, a logged call).
MessageBodies ==
    {Body(FALSE, FALSE, << >>)}
    \cup {Body(TRUE, FALSE, << r >>) : r \in {rInitialize, rInitialized, rLogFixed}}

NextMessage ==
    \/ startServer(3777, TRUE)
    \/ stopServer
    \/ onProgress("cbB")
    \/ \E h \in Headers : getMcp(h, TRUE)
    \/ \E h \in Headers : deleteMcp(h)
    \/ getSse
    \/ \E k \in 1..MaxStreams : streamClose(k)
    \/ \E q \in Headers : postMessageArrive(q)
    \/ \E i \in 1..MaxPosts, b \in MessageBodies : postMessageBody(i, b)

\* The runs that explore the sessions of the two transports: two push
\* streams, a throwing listener, and one body of each kind (not JSON, a
\* request, a notification, a logged call, a value that is no object, an
\* empty batch, a batch of notifications, a batch with two responses).
WireBodies ==
    {Body(FALSE, FALSE, << >>)}
    \cup {Body(TRUE, FALSE, << r >>) : r \in {rInitialize, rInitialized, rLogFixed, rNull}}
    \cup {Body(TRUE, TRUE, items) :
            items \in {<< >>, << rInitialized >>, << rInitialize, rLogFixed >>}}

NextWire ==
    \/ startServer(3777, TRUE)
    \/ stopServer
    \/ closeDone
    \/ onProgress("cbB")
    \/ \E h \in Headers : postMcpArrive(h)
    \/ \E i \in 1..MaxPosts, b \in WireBodies : postMcpBody(i, b)
    \/ \E h \in Headers : getMcp(h, TRUE)
    \/ \E h \in Headers : deleteMcp(h)
    \/ getSse
    \/ \E k \in 1..MaxStreams : streamClose(k)
    \/ \E q \in Headers : postMessageArrive(q)
    \/ \E i \in 1..MaxPosts, b \in WireBodies : postMessageBody(i, b)

(***************************************************************************)
(* The request handler on its own: handleMcpRequest applied to any request *)
(* value under any session id, as both transports apply it.                *)
(***************************************************************************)
callHandler(request, sessionId) ==
    /\ LET h == handleMcpRequest(request, sessionId, progressLog, progressListeners,
                                 Throwing)
       IN  /\ Len(h.log) <= MaxProgress
           /\ progressLog' = h.log
           /\ lastOp' = Op("handleMcpRequest", sessionId,
                           IF h.threw THEN "threw" ELSE "returned", NoHeader,
                           Body(TRUE, FALSE, << request >>),
                           IF h.threw THEN << >> ELSE << h.resp >>, FALSE, NoStream,
                           h.invoked)
    /\ UNCHANGED << server, serverPort, sessions, uuidCount, streams, progressListeners,
                    posts >>
    /\ UNCHANGED notMcpVars

NextHandler ==
    \/ \E c \in Callbacks : onProgress(c)
    \/ \E c \in Callbacks : offProgress(c)
    \/ \E r \in SingleSamples, sid \in 1..MaxUuid : callHandler(r, sid)

(***************************************************************************)
(* Properties of the MCP server.                                           *)
(***************************************************************************)
\* a tools/call that names log_progress and carries a non-empty string summary
IsLogProgressCall(r) ==
    /\ r.json = "object"
    /\ r.method = "tools/call"
    /\ r.params = "object"
    /\ r.name = "log_progress"
    /\ r.arguments = "object"
    /\ r.summary.t = "string"
    /\ r.summary.v # ""

\* a tools/call that fails validation
FailsValidation(r) ==
    /\ r.json = "object"
    /\ r.method = "tools/call"
    /\ ~IsLogProgressCall(r)

\* the JSON-RPC requests an exchange carried: the entries of a POST /mcp
\* body, the single value of a POST /message body
RequestsOf(op) ==
    IF ~op.body.valid \/ (op.op = "POST /message" /\ op.body.isArray)
    THEN << >>
    ELSE op.body.items

EventsAppended == SubSeq(progressLog, lastOp.logBefore + 1, Len(progressLog))

\* C1: every tools/call log_progress with a non-empty string summary that
\* arrives on a transport (POST /mcp single or batch, POST /message) appends
\* exactly one ProgressEvent with its summary and the request's session id,
\* and every listener registered at that moment is invoked exactly once with
\* it: after each exchange the events appended are those of the valid calls
\* of its body, in order, each fanned out to all the listeners.
C1_EveryValidCallLogsOnce ==
    lastOp.op \in {"POST /mcp", "POST /message"} =>
        LET calls == SelectSeq(RequestsOf(lastOp), IsLogProgressCall)
        IN  /\ Len(EventsAppended) = Len(calls)
            /\ \A i \in DOMAIN calls :
                  /\ i \in DOMAIN EventsAppended
                  /\ EventsAppended[i] = ProgressEvent(calls[i].summary.v, lastOp.sid)
            /\ Len(lastOp.invoked) = Len(calls)
            /\ \A i \in DOMAIN lastOp.invoked : lastOp.invoked[i] = lastOp.listenersAt

\* C1, the case reached: a batch on POST /mcp whose valid log_progress call
\* was logged under the request's session and fanned out to two listeners
C1_BatchCallLogged ==
    /\ lastOp.op = "POST /mcp"
    /\ lastOp.body.isArray
    /\ \E i \in DOMAIN lastOp.body.items : IsLogProgressCall(lastOp.body.items[i])
    /\ Len(lastOp.listenersAt) = 2
    /\ EventsAppended = << ProgressEvent("fixed bug", lastOp.sid) >>
    /\ lastOp.invoked = << lastOp.listenersAt >>

\* C2: a tools/call that fails validation (another tool name, or a summary
\* that is missing, empty or not a string) returns a JSON-RPC error whose
\* code is neither -32700 nor -32600, leaves the length of the progress log
\* unchanged and invokes no listener.
C2_InvalidCallRejected ==
    (lastOp.op = "handleMcpRequest" /\ FailsValidation(lastOp.body.items[1])) =>
        /\ lastOp.status = "returned"
        /\ Len(lastOp.reply) = 1
        /\ lastOp.reply[1].t = "error"
        /\ lastOp.reply[1].code \notin {-32700, -32600}
        /\ Len(progressLog) = lastOp.logBefore
        /\ lastOp.invoked = << >>

\* C2, the case reached: an empty summary rejected while two listeners are
\* registered and the log already holds an event
C2_EmptySummaryRejected ==
    /\ lastOp.op = "handleMcpRequest"
    /\ lastOp.body.items[1] = rEmptySum
    /\ Len(lastOp.listenersAt) = 2
    /\ lastOp.logBefore = 1
    /\ lastOp.reply = << jsonRpcError(9, -32602, Payload("Missing or invalid summary argument", "")) >>

\* C14: a POST /mcp whose session header names an id the registry holds on
\* arrival is handled under that id, mints no session and its response
\* carries that id in Mcp-Session-Id; a POST /mcp with no header or with an
\* id the registry does not hold mints a session.
C14_KnownHeaderKeepsSession ==
    lastOp.op = "POST /mcp" =>
        LET p == lastOp.post
        IN  /\ p.known => /\ lastOp.sid = p.header
                           /\ ~p.minted
                           /\ lastOp.sidHeader = p.header
            /\ ~p.known => p.minted

\* C14 witness: a request sent with the id of a session minted earlier was
\* answered under that id, with the id echoed and no session minted.
C14_SecondPostSameSession ==
    /\ lastOp.op = "POST /mcp"
    /\ lastOp.post.known
    /\ ~lastOp.post.minted
    /\ lastOp.status = "200"
    /\ lastOp.body.items = << rInitialize >>
    /\ lastOp.sid = lastOp.post.header
    /\ lastOp.sidHeader = lastOp.post.header

\* C15: every response to a POST /mcp (200, 202 or the 400 of a body that
\* is not JSON) carries Mcp-Session-Id, set to the id of the session the
\* request was assigned.
C15_EveryResponseCarriesSession ==
    (lastOp.op = "POST /mcp" /\ lastOp.status # "none") =>
        /\ lastOp.sidHeader # NoHeader
        /\ lastOp.sidHeader = lastOp.sid

\* C15 witness: the empty 202 response to a notification-only request that
\* minted a session carries that session's id.
C15_NotificationEchoed ==
    /\ lastOp.op = "POST /mcp"
    /\ lastOp.status = "202"
    /\ lastOp.body.items = << rInitialized >>
    /\ lastOp.post.minted
    /\ lastOp.sidHeader = lastOp.sid

\* C16: an operation that names a session id the registry does not hold (a
\* POST /mcp with such a header, a DELETE /mcp with such a header, a POST
\* /message with such a sessionId or none) is answered with an error, not
\* with the 200, 202 or 204 a known session gets, and is not processed: no
\* session is minted, nothing is logged and no listener is invoked.
C16_UnknownSessionFails ==
    /\ (lastOp.op = "POST /mcp" /\ lastOp.post.header # NoHeader /\ ~lastOp.post.known) =>
            /\ lastOp.status \notin {"200", "202"}
            /\ ~lastOp.post.minted
            /\ Len(progressLog) = lastOp.logBefore
            /\ lastOp.invoked = << >>
    /\ (lastOp.op = "DELETE /mcp" /\ lastOp.sid = UnknownId) =>
            lastOp.status \notin {"200", "202", "204"}
    /\ (lastOp.op = "POST /message" /\ lastOp.sid \in {NoHeader, UnknownId}) =>
            /\ lastOp.status = "400"
            /\ lastOp.reply = << InvalidSession >>
            /\ Len(progressLog) = lastOp.logBefore
            /\ lastOp.invoked = << >>

\* C16 witness: a POST /message naming an id the registry never held was
\* answered with the invalid-session error while the registry held a
\* session with no stream attached.
C16_UnknownMessageRejected ==
    /\ lastOp.op = "POST /message"
    /\ lastOp.sid = UnknownId
    /\ lastOp.status = "400"
    /\ lastOp.reply = << InvalidSession >>
    /\ \E s \in DOMAIN sessions : sessions[s].sseRes = NoStream

\* C17: a POST /message with no sessionId or one the registry does not hold
\* is answered 400 with error -32600 before its body is read; one with a
\* known sessionId and a body that is not JSON is answered 400 with error
\* -32700; in both cases the progress log, the listeners, the registry and
\* the push streams are unchanged and nothing is written to a stream.
C17_MessageSessionCheckedFirst ==
    [][ /\ \A q \in Headers :
              ((q = NoHeader \/ q \notin DOMAIN sessions) /\ postMessageArrive(q)) =>
                  /\ lastOp'.status = "400"
                  /\ lastOp'.reply = << jsonRpcError(0, -32600,
                                          Payload("Invalid or missing sessionId", "")) >>
                  /\ lastOp'.stream = NoStream
                  /\ UNCHANGED << progressLog, progressListeners, sessions, streams, posts >>
        /\ \A i \in 1..MaxPosts, b \in MessageBodies :
              (~b.valid /\ postMessageBody(i, b)) =>
                  /\ lastOp'.status = "400"
                  /\ lastOp'.reply = << jsonRpcError(0, -32700, Payload("Parse error", "")) >>
                  /\ lastOp'.stream = NoStream
                  /\ UNCHANGED << progressLog, progressListeners, sessions, streams >>
      ]_vars

\* C17 witness: a body that is not JSON, posted to a session that holds an
\* open push stream while an event is logged and a listener registered, was
\* answered with the parse error.
C17_ParseErrorOnKnownSession ==
    /\ lastOp.op = "POST /message"
    /\ lastOp.post.path = "/message"
    /\ ~lastOp.body.valid
    /\ lastOp.reply = << ParseError >>
    /\ lastOp.sid \in DOMAIN sessions
    /\ sessions[lastOp.sid].sseRes # NoStream
    /\ progressLog # << >>
    /\ progressListeners # << >>

\* C18: a POST /message accepted for a known session whose request yields a
\* JSON-RPC response delivers it in exactly one place: written to the
\* session's push stream, which is open, with the POST answered by an empty
\* 202, when the registry holds the session with a stream at the time the
\* body has been handled; otherwise in the body of the 200 response.
C18_ResponseInOnePlace ==
    (/\ lastOp.op = "POST /message"
     /\ lastOp.post.path = "/message"
     /\ lastOp.body.valid
     /\ lastOp.status # "none"
     /\ lastOp.reply # << >>) =>
        LET sid == lastOp.sid
            attached == sid \in DOMAIN sessions /\ sessions[sid].sseRes # NoStream
        IN  /\ Len(lastOp.reply) = 1
            /\ IF attached
               THEN /\ lastOp.status = "202"
                    /\ lastOp.stream = sessions[sid].sseRes
                    /\ streams[lastOp.stream].state = "open"
                    /\ streams[lastOp.stream].sid = sid
               ELSE /\ lastOp.status = "200"
                    /\ lastOp.stream = NoStream

\* C18 witness: the session's stream was closed, and with it the session
\* removed, while the body was being read: the response went into the body
\* of the POST response.
C18_StreamClosedWhileReading ==
    /\ lastOp.op = "POST /message"
    /\ lastOp.post.path = "/message"
    /\ lastOp.sid \notin DOMAIN sessions
    /\ \E k \in DOMAIN streams : streams[k].sid = lastOp.sid /\ streams[k].state = "closed"
    /\ lastOp.status = "200"
    /\ lastOp.reply = << jsonRpcResponse(1, Payload("initialize", "2024-11-05")) >>
    /\ lastOp.stream = NoStream

\* C33: an exchange on POST /mcp or POST /message whose body was valid JSON
\* has been answered: the handler did not fail without a reply.
C33_ValidJsonAnswered ==
    (lastOp.op \in {"POST /mcp", "POST /message"} /\ lastOp.body.valid) =>
        lastOp.status # "none"

\* C33 witness: valid JSON bodies that were answered: a request on
\* POST /message with 200 and its response.
C33_MessageRequestAnswered ==
    /\ lastOp.op = "POST /message"
    /\ lastOp.body = Body(TRUE, FALSE, << rInitialize >>)
    /\ lastOp.status = "200"
    /\ Len(lastOp.reply) = 1

\* The runs that explore the batches of POST /mcp: bodies that hold one
\* request or an array of up to MaxBatch + 1 values, each a request with a
\* response, a notification, a logged call, a rejected call or null.
BatchRequests == {rInitialize, rInitialized, rCancelled, rLogFixed, rEmptySum, rNull}

BatchBodies ==
    {Body(TRUE, FALSE, << r >>) : r \in BatchRequests}
    \cup {Body(TRUE, TRUE, b) : b \in UNION {[1..k -> BatchRequests] : k \in 0..(MaxBatch + 1)}}

NextBatch ==
    \/ startServer(3777, TRUE)
    \/ onProgress("cbA")
    \/ \E h \in Headers : postMcpArrive(h)
    \/ \E i \in 1..MaxPosts, b \in BatchBodies : postMcpBody(i, b)

\* a request for which the handler returns no response
IsNotification(r) ==
    r.method \in {"notifications/initialized", "notifications/cancelled"}

\* C27: a POST /mcp whose body is a request object or an array of k request
\* objects, n of them notifications, is handled in array order under one
\* session: the reply holds exactly the k - n responses, in the order of
\* their requests; for an array it is sent as an array (HTTP 200) unless
\* k = n, when the reply is the empty acknowledgement (HTTP 202); for a
\* single request that is no notification it is sent as one object; the
\* reply names the session, and the events logged carry it, in the order of
\* their calls.
C27_BatchReplyShape ==
    LET items    == lastOp.body.items
        answered == SelectSeq(items, LAMBDA r : ~IsNotification(r))
        calls    == SelectSeq(items, IsLogProgressCall)
    IN  (/\ lastOp.op = "POST /mcp"
         /\ lastOp.body.valid
         /\ \A j \in DOMAIN items : items[j].json = "object") =>
            /\ Len(lastOp.reply) = Len(answered)
            /\ \A j \in DOMAIN answered : lastOp.reply[j].id = answered[j].id
            /\ lastOp.sid = lastOp.post.sid
            /\ IF answered = << >>
               THEN lastOp.status = "202"
               ELSE /\ lastOp.status = "200"
                    /\ lastOp.replyIsArray = lastOp.body.isArray
            /\ lastOp.sidHeader = lastOp.sid
            /\ EventsAppended =
                 [j \in DOMAIN calls |-> ProgressEvent(calls[j].summary.v, lastOp.sid)]

\* C27 witness: a batch of a notification, an initialize and a log_progress
\* call has been answered with an array of two responses, in that order, and
\* the event of the call is in the log under the session of the reply.
C27_ThreeRequestsTwoResponses ==
    /\ lastOp.op = "POST /mcp"
    /\ lastOp.body = Body(TRUE, TRUE, << rInitialized, rInitialize, rLogFixed >>)
    /\ lastOp.status = "200"
    /\ lastOp.replyIsArray
    /\ Len(lastOp.reply) = 2
    /\ lastOp.reply[1].id = rInitialize.id
    /\ lastOp.reply[2].id = rLogFixed.id
    /\ lastOp.reply[2].t = "result"
    /\ progressLog = << ProgressEvent("fixed bug", lastOp.sid) >>

\* the exchange answers the parse error and nothing was handled in it
AnsweredParseError ==
    /\ lastOp.status = "400"
    /\ lastOp.reply = << ParseError >>
    /\ lastOp.invoked = << >>
    /\ lastOp.stream = NoStream
    /\ Len(progressLog) = lastOp.logBefore
    /\ progressListeners = lastOp.listenersAt

\* the step that answers a body which is not JSON leaves the server, the
\* log, the listeners, the registry and the streams as they were
ParseErrorChangesNothing ==
    \A i \in 1..MaxPosts :
        (postMcpBody(i, Body(FALSE, FALSE, << >>))
            \/ postMessageBody(i, Body(FALSE, FALSE, << >>))) =>
                UNCHANGED << server, serverPort, sessions, uuidCount, streams,
                             progressListeners, progressLog >>

\* C26 as stated: every POST to /mcp or /message whose body is not valid
\* JSON is answered with the parse error (-32700), nothing of it reaches the
\* request handler, the log and the listeners are unchanged, and the server
\* goes on serving.
C26_InvalidJsonGetsParseError ==
    /\ []((lastOp.op \in {"POST /mcp", "POST /message"} /\ ~lastOp.body.valid) =>
             AnsweredParseError)
    /\ [][ParseErrorChangesNothing]_vars

\* C26 amended: the same for every POST to /mcp and for every POST to
\* /message that names a known session; a POST to /message with a missing or
\* unknown sessionId is answered before its body is read.
C26_ParseErrorWhenBodyRead ==
    /\ []((/\ lastOp.op \in {"POST /mcp", "POST /message"}
           /\ ~lastOp.body.valid
           /\ lastOp.post # NoPost) => AnsweredParseError)
    /\ [][ParseErrorChangesNothing]_vars

\* C26 witness: a POST /mcp whose body is not JSON has been answered with
\* the parse error while the server listens, with an event logged earlier
\* still in the log and a listener registered.
C26_ParseErrorOnMcp ==
    /\ lastOp.op = "POST /mcp"
    /\ ~lastOp.body.valid
    /\ lastOp.post.path = "/mcp"
    /\ lastOp.status = "400"
    /\ lastOp.reply = << ParseError >>
    /\ server = "listening"
    /\ progressLog # << >>
    /\ progressListeners # << >>

\* The runs that explore the health check: the server started and stopped,
\* sessions created by POST /mcp and GET /sse and removed by DELETE /mcp and
\* by closed streams, requests of every kind on both POST routes, and health
\* checks in between.
NextHealth ==
    \/ startServer(3777, TRUE)
    \/ stopServer
    \/ closeDone
    \/ getHealth
    \/ \E h \in Headers : postMcpArrive(h)
    \/ \E i \in 1..MaxPosts, b \in WireBodies : postMcpBody(i, b)
    \/ \E h \in Headers : deleteMcp(h)
    \/ getSse
    \/ \E k \in 1..MaxStreams : streamClose(k)
    \/ \E q \in Headers : postMessageArrive(q)
    \/ \E i \in 1..MaxPosts, b \in MessageBodies : postMessageBody(i, b)

\* the requests of a batch that the loop reaches: those before the first
\* value whose destructuring throws
RECURSIVE HandledPrefix(_)
HandledPrefix(requests) ==
    IF requests = << >> \/ Head(requests).json = "null" THEN << >>
    ELSE << Head(requests) >> \o HandledPrefix(Tail(requests))

\* the log_progress calls of an exchange that passed validation
CallsSucceeded(op) ==
    IF op.op \in {"POST /mcp", "POST /message", "handleMcpRequest"}
    THEN LET reached == HandledPrefix(RequestsOf(op))
         IN  Cardinality({i \in DOMAIN reached : IsLogProgressCall(reached[i])})
    ELSE 0

\* C25: the health check answers 200 with status "running", activeSessions
\* equal to the size of the session registry and totalProgressEvents equal
\* to the length of the progress log, which every step increases by the
\* number of log_progress calls that passed validation in it (so that it
\* counts the successful calls of the process); the health check creates no
\* session and changes nothing of the server's state; before any session
\* was created it reports activeSessions 0.
C25_HealthReportsCounts ==
    /\ [](lastOp.op = "GET /" =>
            /\ lastOp.status = "200"
            /\ lastOp.reply = << [t |-> "health", status |-> "running",
                                  activeSessions |-> Cardinality(DOMAIN sessions),
                                  totalProgressEvents |-> Len(progressLog)] >>
            /\ uuidCount = 0 => lastOp.reply[1].activeSessions = 0)
    /\ [][ /\ getHealth => UNCHANGED << server, serverPort, sessions, uuidCount, streams,
                                        progressListeners, progressLog, posts >>
           /\ (lastOp' # lastOp \/ progressLog' # progressLog) =>
                 Len(progressLog') = Len(progressLog) + CallsSucceeded(lastOp')
         ]_vars

\* C25 witness: after an initialize and one log_progress call were answered
\* on the session the server handed out, the health check reports one
\* session and totalProgressEvents 1.
C25_HealthAfterOneCall ==
    /\ lastOp.op = "GET /"
    /\ server = "listening"
    /\ uuidCount = 1
    /\ lastOp.reply[1].status = "running"
    /\ lastOp.reply[1].activeSessions = 1
    /\ lastOp.reply[1].totalProgressEvents = 1
    /\ progressLog = << ProgressEvent("fixed bug", 1) >>

(***************************************************************************)
(* Git watcher: repositories and git commands.                             *)
(***************************************************************************)
Repos == {"rA", "rB"}       \* directories that hold a git repository
\* The n-th commit of a repository's branch (n = 1 is the root commit)
Hash(repo, n) == [repo |-> repo, n |-> n]
\* null in place of a hash
NoHash == [repo |-> "", n |-> 0]

Reverse(s) == [i \in 1..Len(s) |-> s[Len(s) + 1 - i]]

\* gitExec(repoPath, ['rev-parse', 'HEAD']) inside getLatestCommitHash:
\* the hash of HEAD, or null when git fails, which it also does in a
\* repository with no commit
getLatestCommitHash(repoPath, ok) ==
    IF ok /\ head[repoPath] > 0 THEN Hash(repoPath, head[repoPath]) ELSE NoHash

\* getNewCommitsSince(repoPath, sinceHash): what `git log since..HEAD`
\* prints, newest commit first; [] when git fails, which it also does for a
\* revision the repository does not hold
getNewCommitsSince(repoPath, sinceHash, ok) ==
    IF ~ok \/ sinceHash.repo # repoPath
    THEN << >>
    ELSE [i \in 1..(head[repoPath] - sinceHash.n) |-> Hash(repoPath, head[repoPath] + 1 - i)]

(***************************************************************************)
(* Git watcher: state.                                                     *)
(***************************************************************************)
WatchState(repoPath, lastCommitHash, pollInterval) ==
    [repoPath |-> repoPath, lastCommitHash |-> lastCommitHash, pollInterval |-> pollInterval]

\* watchState = null
NullState == WatchState("", NoHash, 0)

CommitEvent(repoPath, hash) == [repoPath |-> repoPath, hash |-> hash]

\* A pollForCommits call suspended at an await.  pc names the git command
\* awaited, repo is the repository it runs in, since is the watermark handed
\* to getNewCommitsSince, currentHash and todo are the locals of the call
\* (todo: the commits of the loop not yet emitted).  The other fields are
\* history: the timer that fired and, as long as the tick is undisturbed (no
\* git command of it failed, the watch was neither stopped nor started and
\* no other tick was in progress meanwhile), the hashes it emitted.
Tick(timer, pc, repo, since, currentHash, todo, undisturbed) ==
    [timer |-> timer, pc |-> pc, repo |-> repo, since |-> since,
     currentHash |-> currentHash, todo |-> todo, undisturbed |-> undisturbed,
     emitted |-> << >>]

NoTick == Tick(0, "none", "", NoHash, NoHash, << >>, FALSE)

\* the tick is disturbed: its history is dropped
Disturbed(tick) == [tick EXCEPT !.undisturbed = FALSE, !.emitted = << >>]

\* History record of the call or tick that ended in the last step.
GitOp(op, result, tick, invoked) ==
    [op |-> op, result |-> result, tick |-> tick, invoked |-> invoked,
     listenersAt |-> commitListeners]

NoGitOp == [op |-> "none", result |-> "", tick |-> NoTick, invoked |-> << >>,
            listenersAt |-> << >>]

\* History of the startWatching calls, kept while the run is one of calls on
\* one repository with no commit landing between them, no stopWatching call,
\* no commit landing while a tick is in progress and no timer firing while
\* its previous tick is in progress: the number of calls, the repository
\* and its HEAD at the first call.
Calls(calls, repo, headAt) ==
    [tracked |-> TRUE, calls |-> calls, repo |-> repo, headAt |-> headAt]

Untracked == [tracked |-> FALSE, calls |-> 0, repo |-> "", headAt |-> 0]

InitGit ==
    /\ head = [r \in Repos |-> 1]
    /\ watchState = NullState
    /\ timers = {}
    /\ timerCount = 0
    /\ commitListeners = << >>
    /\ commitLog = << >>
    /\ ticks = << >>
    /\ starts = << >>
    /\ gitHist = Calls(0, "", 0)
    /\ lastGit = NoGitOp

\* the state of the other components, which no git watcher handler touches
notGitVars == << mcpVars, fwVars, uiVars >>

CommitsLanded == head["rA"] + head["rB"] - 2

\* every tick in progress is disturbed
AllDisturbed(ts) == [k \in DOMAIN ts |-> Disturbed(ts[k])]

(***************************************************************************)
(* Git watcher: the environment and the public API.                        *)
(***************************************************************************)
\* a developer commits in a repository
commitLands(r) ==
    /\ CommitsLanded < MaxCommits
    /\ head' = [head EXCEPT ![r] = @ + 1]
    /\ gitHist' = IF gitHist.calls # 1 /\ ticks = << >> THEN gitHist ELSE Untracked
    /\ lastGit' = NoGitOp
    /\ UNCHANGED << watchState, timers, timerCount, commitListeners, commitLog, ticks,
                    starts >>
    /\ UNCHANGED notGitVars

\* onCommit(callback)
onCommit(callback) ==
    /\ commitListeners' = SetAdd(commitListeners, callback)
    /\ lastGit' = NoGitOp
    /\ UNCHANGED << head, watchState, timers, timerCount, commitLog, ticks, starts,
                    gitHist >>
    /\ UNCHANGED notGitVars

\* the unsubscribe function onCommit returned
offCommit(callback) ==
    /\ callback \in Range(commitListeners)
    /\ commitListeners' = SeqWithout(commitListeners, callback)
    /\ lastGit' = NoGitOp
    /\ UNCHANGED << head, watchState, timers, timerCount, commitLog, ticks, starts,
                    gitHist >>
    /\ UNCHANGED notGitVars

\* stopWatching() that also empties the commit log
stopWatchingClearingLog ==
    /\ timers' = IF watchState = NullState THEN timers
                 ELSE timers \ {watchState.pollInterval}
    /\ watchState' = NullState
    /\ commitLog' = << >>
    /\ ticks' = [k \in DOMAIN ticks |-> Disturbed(ticks[k])]
    /\ gitHist' = Untracked
    /\ lastGit' = GitOp("stopWatching", "resolved", NoTick, << >>)
    /\ UNCHANGED << head, timerCount, commitListeners, starts >>
    /\ UNCHANGED notGitVars

\* stopWatching(): the timers left after clearInterval(watchState.pollInterval)
ClearPollInterval == IF watchState = NullState THEN timers
                     ELSE timers \ {watchState.pollInterval}

\* stopWatching()
stopWatching ==
    /\ timers' = ClearPollInterval
    /\ watchState' = NullState
    /\ ticks' = AllDisturbed(ticks)
    /\ gitHist' = Untracked
    /\ lastGit' = GitOp("stopWatching", "resolved", NoTick, << >>)
    /\ UNCHANGED << head, timerCount, commitListeners, commitLog, starts >>
    /\ UNCHANGED notGitVars

\* startWatching(repoPath), up to the first git command of validateRepo:
\* `await stopWatching()` and fs.existsSync run before any other handler.
startWatching(repoPath) ==
    /\ timerCount + Len(starts) < MaxStarts
    /\ timers' = ClearPollInterval
    /\ watchState' = NullState
    /\ ticks' = AllDisturbed(ticks)
    /\ gitHist' = IF gitHist.tracked /\ gitHist.calls = 0 /\ repoPath \in Repos
                  THEN Calls(1, repoPath, head[repoPath])
                  ELSE IF gitHist.tracked /\ gitHist.calls = 1 /\ repoPath = gitHist.repo
                  THEN Calls(2, repoPath, gitHist.headAt)
                  ELSE Untracked
    /\ IF repoPath \notin Repos
       THEN \* { success: false, error: 'Directory does not exist' }
            /\ lastGit' = GitOp("startWatching", "failure", NoTick, << >>)
            /\ UNCHANGED starts
       ELSE /\ starts' = Append(starts, [repo |-> repoPath, pc |-> "validate"])
            /\ lastGit' = NoGitOp
    /\ UNCHANGED << head, timerCount, commitListeners, commitLog >>
    /\ UNCHANGED notGitVars

\* startWatching: validateRepo's git commands have answered
startValidated(i, valid) ==
    /\ i \in DOMAIN starts
    /\ starts[i].pc = "validate"
    /\ IF valid
       THEN /\ starts' = [starts EXCEPT ![i].pc = "hash"]
            /\ lastGit' = NoGitOp
       ELSE /\ starts' = RemoveAt(starts, i)
            /\ lastGit' = GitOp("startWatching", "failure", NoTick, << >>)
    /\ UNCHANGED << head, watchState, timers, timerCount, commitListeners, commitLog,
                    ticks, gitHist >>
    /\ UNCHANGED notGitVars

\* startWatching: getLatestCommitHash has answered; watchState is assigned
\* with a new interval timer
startHashed(i, ok) ==
    /\ i \in DOMAIN starts
    /\ starts[i].pc = "hash"
    /\ starts' = RemoveAt(starts, i)
    /\ timerCount' = timerCount + 1
    /\ timers' = timers \cup {timerCount + 1}
    /\ watchState' = WatchState(starts[i].repo, getLatestCommitHash(starts[i].repo, ok),
                                timerCount + 1)
    /\ ticks' = AllDisturbed(ticks)
    /\ lastGit' = GitOp("startWatching", "success", NoTick, << >>)
    /\ UNCHANGED << head, commitListeners, commitLog, gitHist >>
    /\ UNCHANGED notGitVars

(***************************************************************************)
(* Git watcher: pollForCommits, one action per suspension point.           *)
(***************************************************************************)
\* for (const listener of commitListeners) { try { listener(event) } catch {} }
\* The result: the callbacks entered, in order.
RECURSIVE notifyCommit(_, _)
notifyCommit(ls, throwers) ==
    IF ls = << >> THEN << >>
    ELSE << Head(ls) >> \o notifyCommit(Tail(ls), throwers)

\* The tick ends: it returns, or a TypeError on watchState = null is caught.
EndTick(i, result, tick, invoked) ==
    /\ ticks' = RemoveAt(ticks, i)
    /\ lastGit' = GitOp("pollForCommits", result, tick, invoked)

\* watchState.lastCommitHash = currentHash, the last statement of the try
SetWatermark(i, tick, invoked) ==
    IF watchState = NullState
    THEN /\ UNCHANGED watchState
         /\ EndTick(i, "caught", tick, invoked)
    ELSE /\ watchState' = [watchState EXCEPT !.lastCommitHash = tick.currentHash]
         /\ EndTick(i, "returned", tick, invoked)

\* The loop reaches its next commit: getCommitDiff(watchState.repoPath, ...)
\* is called, or the loop is over.
NextCommit(i, tick, invoked) ==
    IF tick.todo = << >>
    THEN SetWatermark(i, tick, invoked)
    ELSE IF watchState = NullState
    THEN /\ UNCHANGED watchState
         /\ EndTick(i, "caught", tick, invoked)
    ELSE /\ UNCHANGED watchState
         /\ ticks' = [ticks EXCEPT ![i] = [tick EXCEPT !.pc = "diff",
                                                      !.repo = watchState.repoPath]]
         /\ lastGit' = IF invoked = << >> THEN NoGitOp
                       ELSE GitOp("emit", "", tick, invoked)

\* the interval timer fires: pollForCommits() up to its first await
tickFire(t) ==
    /\ t \in timers
    /\ IF watchState = NullState
       THEN /\ lastGit' = GitOp("pollForCommits", "returned", NoTick, << >>)
            /\ UNCHANGED << ticks, gitHist >>
       ELSE /\ Len(ticks) < MaxTicks
            /\ ticks' = Append(AllDisturbed(ticks),
                               Tick(t, "revparse", watchState.repoPath, NoHash, NoHash,
                                    << >>, ticks = << >>))
            /\ gitHist' = IF \E k \in DOMAIN ticks : ticks[k].timer = t
                          THEN Untracked ELSE gitHist
            /\ lastGit' = NoGitOp
    /\ UNCHANGED << head, watchState, timers, timerCount, commitListeners, commitLog,
                    starts >>
    /\ UNCHANGED notGitVars

\* the tick that gives up the watch when getLatestCommitHash fails
tickRevParsedStopping(i, ok) ==
    /\ i \in DOMAIN ticks
    /\ ticks[i].pc = "revparse"
    /\ LET currentHash == getLatestCommitHash(ticks[i].repo, ok)
           tick == [(IF ok THEN ticks[i] ELSE Disturbed(ticks[i]))
                       EXCEPT !.currentHash = currentHash]
       IN  IF currentHash = NoHash
           THEN /\ EndTick(i, "returned", tick, << >>)
                /\ watchState' = NullState
           ELSE IF watchState = NullState
           THEN /\ EndTick(i, "caught", tick, << >>)
                /\ UNCHANGED watchState
           ELSE IF watchState.lastCommitHash # NoHash
                   /\ currentHash # watchState.lastCommitHash
           THEN /\ ticks' = [ticks EXCEPT ![i] =
                               [tick EXCEPT !.pc = "log", !.repo = watchState.repoPath,
                                            !.since = watchState.lastCommitHash]]
                /\ lastGit' = NoGitOp
                /\ UNCHANGED watchState
           ELSE SetWatermark(i, tick, << >>)
    /\ UNCHANGED << head, timers, timerCount, commitListeners, commitLog, starts, gitHist >>
    /\ UNCHANGED notGitVars

\* getLatestCommitHash has answered
tickRevParsed(i, ok) ==
    /\ i \in DOMAIN ticks
    /\ ticks[i].pc = "revparse"
    /\ LET currentHash == getLatestCommitHash(ticks[i].repo, ok)
           tick == [(IF ok THEN ticks[i] ELSE Disturbed(ticks[i]))
                       EXCEPT !.currentHash = currentHash]
       IN  IF currentHash = NoHash
           THEN \* if (!currentHash) return
                /\ EndTick(i, "returned", tick, << >>)
                /\ UNCHANGED watchState
           ELSE IF watchState = NullState
           THEN /\ EndTick(i, "caught", tick, << >>)
                /\ UNCHANGED watchState
           ELSE IF watchState.lastCommitHash # NoHash
                   /\ currentHash # watchState.lastCommitHash
           THEN /\ ticks' = [ticks EXCEPT ![i] =
                               [tick EXCEPT !.pc = "log", !.repo = watchState.repoPath,
                                            !.since = watchState.lastCommitHash]]
                /\ lastGit' = NoGitOp
                /\ UNCHANGED watchState
           ELSE SetWatermark(i, tick, << >>)
    /\ UNCHANGED << head, timers, timerCount, commitListeners, commitLog, starts, gitHist >>
    /\ UNCHANGED notGitVars

\* getNewCommitsSince has answered
tickLogged(i, ok) ==
    /\ i \in DOMAIN ticks
    /\ ticks[i].pc = "log"
    /\ LET newCommits == getNewCommitsSince(ticks[i].repo, ticks[i].since, ok)
           tick == [(IF ok THEN ticks[i] ELSE Disturbed(ticks[i]))
                       EXCEPT !.todo = Reverse(newCommits)]
       IN  NextCommit(i, tick, << >>)
    /\ UNCHANGED << head, timers, timerCount, commitListeners, commitLog, starts, gitHist >>
    /\ UNCHANGED notGitVars

\* getCommitDiff has answered; getCurrentBranch(watchState.repoPath) is called
tickDiffed(i) ==
    /\ i \in DOMAIN ticks
    /\ ticks[i].pc = "diff"
    /\ IF watchState = NullState
       THEN EndTick(i, "caught", ticks[i], << >>)
       ELSE /\ ticks' = [ticks EXCEPT ![i].pc = "branch", ![i].repo = watchState.repoPath]
            /\ lastGit' = NoGitOp
    /\ UNCHANGED << head, watchState, timers, timerCount, commitListeners, commitLog,
                    starts, gitHist >>
    /\ UNCHANGED notGitVars

\* getCurrentBranch has answered: the event is built, logged and delivered,
\* and the loop goes on
tickBranched(i) ==
    /\ i \in DOMAIN ticks
    /\ ticks[i].pc = "branch"
    /\ IF watchState = NullState
       THEN /\ EndTick(i, "caught", ticks[i], << >>)
            /\ UNCHANGED << watchState, commitLog >>
       ELSE LET commit == Head(ticks[i].todo)
                tick   == [ticks[i] EXCEPT !.todo = Tail(@),
                                           !.emitted = IF ticks[i].undisturbed
                                                       THEN Append(@, commit) ELSE @]
            IN  /\ Len(commitLog) < MaxCommitLog
                /\ commitLog' = Append(commitLog, CommitEvent(watchState.repoPath, commit))
                /\ NextCommit(i, tick, << notifyCommit(commitListeners, Throwing) >>)
    /\ UNCHANGED << head, timers, timerCount, commitListeners, starts, gitHist >>
    /\ UNCHANGED notGitVars

NextGit ==
    \/ \E r \in Repos : commitLands(r)
    \/ \E c \in Callbacks : onCommit(c)
    \/ \E c \in Callbacks : offCommit(c)
    \/ stopWatching
    \/ \E r \in Repos \cup {NoDir} : startWatching(r)
    \/ \E i \in 1..MaxStarts, valid \in BOOLEAN : startValidated(i, valid)
    \/ \E i \in 1..MaxStarts, ok \in BOOLEAN : startHashed(i, ok)
    \/ \E t \in 1..MaxStarts : tickFire(t)
    \/ \E i \in 1..MaxTicks, ok \in BOOLEAN : tickRevParsed(i, ok)
    \/ \E i \in 1..MaxTicks, ok \in BOOLEAN : tickLogged(i, ok)
    \/ \E i \in 1..MaxTicks : tickDiffed(i)
    \/ \E i \in 1..MaxTicks : tickBranched(i)

(***************************************************************************)
(* Properties of the git watcher.                                          *)
(***************************************************************************)
\* no commit hash appears in two CommitEvents of the log
NoCommitTwice ==
    \A i, j \in DOMAIN commitLog : i # j => commitLog[i].hash # commitLog[j].hash

\* the hashes of the last n events of the commit log
LastHashes(n) ==
    [i \in 1..n |-> commitLog[Len(commitLog) - n + i].hash]

\* C3: a poll tick that finds HEAD k >= 1 commits ahead of the stored
\* watermark appends exactly those k commits to the commit log, oldest
\* first, and leaves the watermark at the newest of them.  Stated for a tick
\* during which no git command fails, the watch is neither stopped nor
\* started and no other tick is in progress; a throwing listener is
\* registered in some of the runs.
C3_TickEmitsAdvance ==
    LET t == lastGit.tick
        k == t.currentHash.n - t.since.n
        advance == [i \in 1..k |-> Hash(t.since.repo, t.since.n + i)]
    IN  (/\ lastGit.op = "pollForCommits"
         /\ t.undisturbed
         /\ t.since.repo = t.currentHash.repo
         /\ k >= 1) =>
            /\ t.emitted = advance
            /\ Len(commitLog) >= k
            /\ LastHashes(k) = advance
            /\ watchState.lastCommitHash = advance[k]

\* C3, the case reached: an undisturbed tick that found HEAD one commit
\* ahead, with a throwing listener registered, emitted that commit and moved
\* the watermark to it
C3_TickEmittedOne ==
    /\ lastGit.op = "pollForCommits"
    /\ lastGit.tick.undisturbed
    /\ lastGit.tick.since = Hash("rA", 1)
    /\ lastGit.tick.currentHash = Hash("rA", 2)
    /\ lastGit.tick.emitted = << Hash("rA", 2) >>
    /\ lastGit.listenersAt # << >>
    /\ Range(lastGit.listenersAt) \subseteq Throwing
    /\ watchState.lastCommitHash = Hash("rA", 2)

\* C4: during one watch (one startWatching call has assigned the watch
\* state) no commit hash appears in two CommitEvents, whatever the
\* interleaving of ticks and of commits landing.
C4_OneEventPerCommit ==
    timerCount <= 1 => NoCommitTwice

\* C5: after startWatching was called twice on the same repository with no
\* commit landing in between, no commit is emitted more than once and no
\* event is emitted for a commit that existed at the first call.  Stated for
\* the runs in which stopWatching is not called, no commit lands while a
\* tick is in progress and no timer fires while its previous tick is in
\* progress.
C5_SecondStartEmitsNothingTwice ==
    (gitHist.tracked /\ gitHist.calls = 2) =>
        /\ NoCommitTwice
        /\ \A i \in DOMAIN commitLog : commitLog[i].hash.n > gitHist.headAt

\* C6: at most one poll timer is active, and it is the timer recorded in the
\* watch state.
C6_OneTimer ==
    /\ Cardinality(timers) <= 1
    /\ timers # {} => (watchState # NullState /\ timers = {watchState.pollInterval})

\* C23: a poll tick in which a git command fails (rev-parse HEAD, or the log
\* of the new commits) leaves the watch in place: the watch state is still
\* present with the same repository and timer, that timer is still
\* scheduled, and the next firing of the timer starts a tick on the watched
\* repository.
C23_FailedTickKeepsWatch ==
    [][ /\ \A i \in 1..MaxTicks :
              (/\ watchState # NullState
               /\ tickRevParsed(i, FALSE) \/ tickLogged(i, FALSE)) =>
                  /\ watchState' # NullState
                  /\ watchState'.repoPath = watchState.repoPath
                  /\ watchState'.pollInterval = watchState.pollInterval
                  /\ watchState'.pollInterval \in timers'
        /\ \A t \in 1..MaxStarts :
              (watchState # NullState /\ tickFire(t)) =>
                  /\ Len(ticks') = Len(ticks) + 1
                  /\ ticks'[Len(ticks')].pc = "revparse"
                  /\ ticks'[Len(ticks')].repo = watchState.repoPath
      ]_vars

\* C23 witness: a tick has just returned because rev-parse HEAD failed; the
\* watch state is present, its timer is scheduled and a commit that landed
\* meanwhile waits for the next tick.
C23_RevParseFailed ==
    /\ lastGit.op = "pollForCommits"
    /\ lastGit.result = "returned"
    /\ lastGit.tick.pc = "revparse"
    /\ lastGit.tick.currentHash = NoHash
    /\ watchState # NullState
    /\ watchState.pollInterval \in timers
    /\ head[watchState.repoPath] > watchState.lastCommitHash.n

\* C35: every CommitEvent names the repository that holds its commit, and
\* the watermark of the current watch, when it is a hash, is a commit of the
\* repository being watched, whatever ticks of a previous watch are still in
\* progress.
C35_StaleTickHasNoEffect ==
    /\ \A i \in DOMAIN commitLog : commitLog[i].repoPath = commitLog[i].hash.repo
    /\ (watchState # NullState /\ watchState.lastCommitHash # NoHash) =>
           watchState.lastCommitHash.repo = watchState.repoPath

\* C35 witness: the second watch, on rB after one on rA, has emitted the
\* commit that landed in rB under rB's path and its watermark is that commit.
C35_SecondWatchEmitsOwnCommit ==
    /\ timerCount = 2
    /\ gitHist = Untracked
    /\ watchState.repoPath = "rB"
    /\ watchState.lastCommitHash = Hash("rB", 2)
    /\ head["rA"] = 2
    /\ commitLog = << CommitEvent("rB", Hash("rB", 2)) >>
    /\ lastGit.op = "pollForCommits"
    /\ lastGit.result = "returned"

\* C37: a tick whose enumeration of the new commits fails leaves the
\* watermark where it was, so that a later tick finds the same commits ahead
\* of it.
C37_FailedLogKeepsWatermark ==
    [][ \A i \in 1..MaxTicks :
          tickLogged(i, FALSE) =>
              watchState'.lastCommitHash = watchState.lastCommitHash
      ]_vars

\* C37 witness: a tick of the watch on rA has just ended after `git log`
\* failed while a commit was ahead of the watermark it read, and nothing
\* has been emitted.
C37_EnumerationFailed ==
    /\ lastGit.op = "pollForCommits"
    /\ lastGit.result = "returned"
    /\ lastGit.tick.pc = "log"
    /\ lastGit.tick.todo = << >>
    /\ lastGit.tick.since = Hash("rA", 1)
    /\ lastGit.tick.currentHash = Hash("rA", 2)
    /\ watchState.repoPath = "rA"
    /\ commitLog = << >>

\* The process starts while nothing has been committed in rA yet.
InitEmptyRepo ==
    /\ head = [r \in Repos |-> IF r = "rA" THEN 0 ELSE 1]
    /\ watchState = NullState
    /\ timers = {}
    /\ timerCount = 0
    /\ commitListeners = << >>
    /\ commitLog = << >>
    /\ ticks = << >>
    /\ starts = << >>
    /\ gitHist = Calls(0, "", 0)
    /\ lastGit = NoGitOp

\* The runs that explore a watch started on the empty repository: one
\* startWatching call, commits that land once the watch exists, ticks, a
\* listener, and no git command failing for another reason.
NextEmptyRepo ==
    \/ timerCount = 0 /\ starts = << >> /\ startWatching("rA")
    \/ startValidated(1, TRUE)
    \/ startHashed(1, TRUE)
    \/ watchState # NullState /\ commitLands("rA")
    \/ onCommit("cbA")
    \/ \E t \in 1..MaxStarts : tickFire(t)
    \/ \E i \in 1..MaxTicks : tickRevParsed(i, TRUE)
    \/ \E i \in 1..MaxTicks : tickLogged(i, TRUE)
    \/ \E i \in 1..MaxTicks : tickDiffed(i)
    \/ \E i \in 1..MaxTicks : tickBranched(i)

\* C36: in a watch started on the repository with no commit, once no tick
\* is in progress and the watermark is HEAD, every commit of the repository,
\* all of which landed after the start, has been emitted as a CommitEvent.
C36_CommitsAfterEmptyStartEmitted ==
    (/\ watchState.repoPath = "rA"
     /\ ticks = << >>
     /\ watchState.lastCommitHash = Hash("rA", head["rA"])) =>
        \A n \in 1..head["rA"] :
            \E i \in DOMAIN commitLog : commitLog[i] = CommitEvent("rA", Hash("rA", n))

\* C36 witness: the watch started with a null watermark; the second commit
\* that landed has been emitted by a tick and delivered to the listener.
C36_LaterCommitEmitted ==
    /\ watchState.repoPath = "rA"
    /\ head["rA"] = 2
    /\ watchState.lastCommitHash = Hash("rA", 2)
    /\ ticks = << >>
    /\ commitLog # << >>
    /\ commitLog[Len(commitLog)] = CommitEvent("rA", Hash("rA", 2))
    /\ lastGit.op = "pollForCommits"
    /\ lastGit.invoked = << << "cbA" >> >>

(***************************************************************************)
(* File watcher: strings and paths.  A string is the sequence of its       *)
(* characters, so that split, startsWith, includes, toLowerCase, basename  *)
(* and extname are computed as Node computes them (POSIX separator).       *)
(***************************************************************************)
Upper == << "A", "B", "C", "D", "E", "F", "G", "H", "I", "J", "K", "L", "M",
            "N", "O", "P", "Q", "R", "S", "T", "U", "V", "W", "X", "Y", "Z" >>
Lower == << "a", "b", "c", "d", "e", "f", "g", "h", "i", "j", "k", "l", "m",
            "n", "o", "p", "q", "r", "s", "t", "u", "v", "w", "x", "y", "z" >>

\* String.prototype.toLowerCase
toLowerCase(s) ==
    [i \in DOMAIN s |->
        IF \E k \in DOMAIN Upper : Upper[k] = s[i]
        THEN Lower[CHOOSE k \in DOMAIN Upper : Upper[k] = s[i]]
        ELSE s[i]]

\* String.prototype.startsWith
startsWith(s, pattern) ==
    /\ Len(pattern) <= Len(s)
    /\ SubSeq(s, 1, Len(pattern)) = pattern

\* String.prototype.includes
includes(s, pattern) ==
    \E i \in 0..(Len(s) - Len(pattern)) : SubSeq(s, i + 1, i + Len(pattern)) = pattern

\* the index of the last occurrence of character c in s, 0 when there is none
LastIndexOf(s, c) ==
    IF \E i \in DOMAIN s : s[i] = c
    THEN CHOOSE i \in DOMAIN s : s[i] = c /\ \A j \in DOMAIN s : s[j] = c => j <= i
    ELSE 0

\* filePath.split(path.sep)
RECURSIVE split(_)
split(s) ==
    IF \E i \in DOMAIN s : s[i] = "/"
    THEN LET i == CHOOSE k \in DOMAIN s : s[k] = "/" /\ \A j \in 1..(k - 1) : s[j] # "/"
         IN  << SubSeq(s, 1, i - 1) >> \o split(SubSeq(s, i + 1, Len(s)))
    ELSE << s >>

\* path.basename of a file name (no trailing separator)
basename(p) == SubSeq(p, LastIndexOf(p, "/") + 1, Len(p))

\* path.extname: from the last "." of the basename to its end; empty when
\* there is no ".", or the only one is the first character of the basename
extname(p) ==
    LET b == basename(p)
        i == LastIndexOf(b, ".")
    IN  IF i <= 1 \/ b = << ".", "." >> THEN << >> ELSE SubSeq(b, i, Len(b))

(***************************************************************************)
(* File watcher: configuration.                                            *)
(***************************************************************************)
DEFAULT_IGNORE_PATTERNS ==
    <<
      << "n", "o", "d", "e", "_", "m", "o", "d", "u", "l", "e", "s" >>,
      << ".", "g", "i", "t" >>,
      << ".", "n", "e", "x", "t" >>,
      << ".", "n", "u", "x", "t" >>,
      << "d", "i", "s", "t" >>,
      << "b", "u", "i", "l", "d" >>,
      << "o", "u", "t" >>,
      << ".", "c", "a", "c", "h", "e" >>,
      << ".", "t", "u", "r", "b", "o" >>,
      << "_", "_", "p", "y", "c", "a", "c", "h", "e", "_", "_" >>,
      << ".", "p", "y", "t", "e", "s", "t", "_", "c", "a", "c", "h", "e" >>,
      << "t", "a", "r", "g", "e", "t" >>,
      << "v", "e", "n", "d", "o", "r" >>,
      << ".", "i", "d", "e", "a" >>,
      << ".", "v", "s", "c", "o", "d", "e" >>,
      << ".", "D", "S", "_", "S", "t", "o", "r", "e" >>,
      << "T", "h", "u", "m", "b", "s", ".", "d", "b" >>,
      << "p", "a", "c", "k", "a", "g", "e", "-", "l", "o", "c", "k", ".", "j", "s", "o", "n" >>,
      << "y", "a", "r", "n", ".", "l", "o", "c", "k" >>,
      << "p", "n", "p", "m", "-", "l", "o", "c", "k", ".", "y", "a", "m", "l" >>,
      << "C", "a", "r", "g", "o", ".", "l", "o", "c", "k" >>,
      << "G", "e", "m", "f", "i", "l", "e", ".", "l", "o", "c", "k" >>,
      << "p", "o", "e", "t", "r", "y", ".", "l", "o", "c", "k" >>
    >>

WATCHED_EXTENSIONS ==
    {
      << ".", "t", "s" >>,
      << ".", "t", "s", "x" >>,
      << ".", "j", "s" >>,
      << ".", "j", "s", "x" >>,
      << ".", "m", "j", "s" >>,
      << ".", "c", "j", "s" >>,
      << ".", "p", "y" >>,
      << ".", "r", "b" >>,
      << ".", "g", "o" >>,
      << ".", "r", "s" >>,
      << ".", "j", "a", "v", "a" >>,
      << ".", "k", "t" >>,
      << ".", "s", "c", "a", "l", "a" >>,
      << ".", "c" >>,
      << ".", "c", "p", "p" >>,
      << ".", "h" >>,
      << ".", "h", "p", "p" >>,
      << ".", "c", "s" >>,
      << ".", "s", "w", "i", "f", "t" >>,
      << ".", "m" >>,
      << ".", "m", "m" >>,
      << ".", "v", "u", "e" >>,
      << ".", "s", "v", "e", "l", "t", "e" >>,
      << ".", "a", "s", "t", "r", "o" >>,
      << ".", "h", "t", "m", "l" >>,
      << ".", "c", "s", "s" >>,
      << ".", "s", "c", "s", "s" >>,
      << ".", "l", "e", "s", "s" >>,
      << ".", "j", "s", "o", "n" >>,
      << ".", "y", "a", "m", "l" >>,
      << ".", "y", "m", "l" >>,
      << ".", "t", "o", "m", "l" >>,
      << ".", "m", "d" >>,
      << ".", "m", "d", "x" >>,
      << ".", "t", "x", "t" >>,
      << ".", "s", "q", "l" >>,
      << ".", "g", "r", "a", "p", "h", "q", "l" >>,
      << ".", "g", "q", "l" >>,
      << ".", "s", "h" >>,
      << ".", "b", "a", "s", "h" >>,
      << ".", "z", "s", "h" >>,
      << ".", "d", "o", "c", "k", "e", "r", "f", "i", "l", "e" >>,
      << ".", "t", "f" >>,
      << ".", "h", "c", "l" >>,
      << ".", "e", "n", "v", ".", "e", "x", "a", "m", "p", "l", "e" >>,
      << ".", "g", "i", "t", "i", "g", "n", "o", "r", "e" >>
    }

PRIVACY_PATTERNS ==
    <<
      << ".", "e", "n", "v" >>,
      << ".", "e", "n", "v", ".", "l", "o", "c", "a", "l" >>,
      << ".", "e", "n", "v", ".", "p", "r", "o", "d", "u", "c", "t", "i", "o", "n" >>,
      << "s", "e", "c", "r", "e", "t", "s" >>,
      << "c", "r", "e", "d", "e", "n", "t", "i", "a", "l", "s" >>,
      << "p", "r", "i", "v", "a", "t", "e" >>,
      << ".", "p", "e", "m" >>,
      << ".", "k", "e", "y" >>,
      << ".", "c", "e", "r", "t" >>,
      << ".", "p", "1", "2" >>
    >>

\* the extensionless files hasWatchedExtension accepts by name
ConventionFiles ==
    {
      << "D", "o", "c", "k", "e", "r", "f", "i", "l", "e" >>,
      << "M", "a", "k", "e", "f", "i", "l", "e" >>,
      << "P", "r", "o", "c", "f", "i", "l", "e" >>,
      << "R", "a", "k", "e", "f", "i", "l", "e" >>,
      << "G", "e", "m", "f", "i", "l", "e" >>
    }

DEBOUNCE_MS == 1000

\* file names fs.watch reports, relative to the watched folder
pApp == << "s", "r", "c", "/", "a", "p", "p", ".", "t", "s" >>    \* src/app.ts
pUpper == << "A", ".", "T", "S" >>    \* A.TS
pMakefile == << "M", "a", "k", "e", "f", "i", "l", "e" >>    \* Makefile
pSecretsJson == << "s", "e", "c", "r", "e", "t", "s", "/", "c", ".", "j", "s", "o", "n" >>    \* secrets/c.json
pSecretsMake == << "s", "e", "c", "r", "e", "t", "s", "/", "M", "a", "k", "e", "f", "i", "l", "e" >>    \* secrets/Makefile
pNodeModules == << "n", "o", "d", "e", "_", "m", "o", "d", "u", "l", "e", "s", "/", "x", ".", "j", "s" >>    \* node_modules/x.js
pOutput == << "o", "u", "t", "p", "u", "t", ".", "t", "s" >>    \* output.ts
pPng == << "i", "m", "g", ".", "p", "n", "g" >>    \* img.png
pEnv == << ".", "e", "n", "v" >>    \* .env
pPem == << "s", "e", "r", "v", "e", "r", ".", "p", "e", "m" >>    \* server.pem
pTmp == << "t", "m", "p", "/", "a", ".", "t", "s" >>    \* tmp/a.ts
\* fs.watch reports no file name
pNone == << >>

\* a custom ignore pattern
tmpPattern == << "t", "m", "p" >>


(***************************************************************************)
(* File watcher: helpers.                                                  *)
(***************************************************************************)
FwFolders == {"fA", "fB"}   \* directories that exist
NotADir == "file"           \* the path of a regular file

EventTypes == {"change", "rename"}

\* shouldIgnore without its startsWith test: only a segment equal to a pattern
shouldIgnoreEqualOnly(filePath, customPatterns) ==
    LET parts == split(filePath)
        allPatterns == DEFAULT_IGNORE_PATTERNS \o customPatterns
    IN  \E i \in DOMAIN parts : \E j \in DOMAIN allPatterns : parts[i] = allPatterns[j]

\* shouldIgnore(filePath), with the custom patterns in force
shouldIgnore(filePath, customPatterns) ==
    LET parts == split(filePath)
        allPatterns == DEFAULT_IGNORE_PATTERNS \o customPatterns
    IN  \E i \in DOMAIN parts : \E j \in DOMAIN allPatterns :
            parts[i] = allPatterns[j] \/ startsWith(parts[i], allPatterns[j])

\* hasWatchedExtension(filePath)
hasWatchedExtension(filePath) ==
    LET ext == toLowerCase(extname(filePath))
    IN  IF ext = << >>
        THEN basename(filePath) \in ConventionFiles
        ELSE ext \in WATCHED_EXTENSIONS

\* isPrivacySensitive(filePath)
isPrivacySensitive(filePath) ==
    LET base == basename(filePath)
        fullPath == toLowerCase(filePath)
    IN  \E j \in DOMAIN PRIVACY_PATTERNS :
            \/ base = PRIVACY_PATTERNS[j]
            \/ startsWith(base, PRIVACY_PATTERNS[j])
            \/ includes(fullPath, PRIVACY_PATTERNS[j])

\* One entry of a pendingChanges Map: relative path -> change type.
\* customAt is history: the custom ignore patterns in force when the
\* notification that set the entry arrived.
Change(path, type, customAt) == [path |-> path, type |-> type, customAt |-> customAt]

\* entry.pendingChanges.set(filename, eventType): a key already in the Map
\* keeps its place and takes the new value
pendingSet(pending, filename, eventType, customAt) ==
    IF \E i \in DOMAIN pending : pending[i].path = filename
    THEN [i \in DOMAIN pending |->
            IF pending[i].path = filename THEN Change(filename, eventType, customAt)
            ELSE pending[i]]
    ELSE Append(pending, Change(filename, eventType, customAt))

\* the FileChangeEvent emitChanges builds from a Map of changes
FileChangeEvent(folderPath, changes) ==
    [folderPath |-> folderPath,
     files |-> [i \in DOMAIN changes |->
                  [path |-> changes[i].path, type |-> changes[i].type,
                   sensitive |-> isPrivacySensitive(changes[i].path),
                   extension |-> extname(changes[i].path),
                   customAt |-> changes[i].customAt]],
     fileCount |-> Len(changes)]

\* for (const listener of changeListeners) { try { listener(event) } catch {} }
\* The result: the callbacks entered, in order.
RECURSIVE notifyChange(_, _)
notifyChange(ls, throwers) ==
    IF ls = << >> THEN << >>
    ELSE << Head(ls) >> \o notifyChange(Tail(ls), throwers)

(***************************************************************************)
(* File watcher: state.                                                    *)
(***************************************************************************)
\* the unit in which time passes
TimeStep == DEBOUNCE_MS \div 2
\* a lapse of more than the debounce window
Long == DEBOUNCE_MS + TimeStep

NoTimer == 0

\* A WatcherEntry: the open fs.FSWatcher is implied by the entry's presence
\* in `watchers`.  debounceTimer is the Timeout last stored (it stays stored
\* after it has fired).
WatcherEntry(debounceTimer, pendingChanges) ==
    [debounceTimer |-> debounceTimer, pendingChanges |-> pendingChanges]

\* a scheduled Timeout: its handle, the folder of its closure, the time left
Timeout(handle, folder, due) == [handle |-> handle, folder |-> folder, due |-> due]

\* clearTimeout(handle)
clearTimeout(scheduled, handle) == {t \in scheduled : t.handle # handle}

\* A handle for a new Timeout: one that no scheduled Timeout and no entry
\* holds.
FreeHandles(scheduled, entries) ==
    {h \in 1..MaxTimers :
        /\ \A t \in scheduled : t.handle # h
        /\ \A f \in DOMAIN entries : entries[f].debounceTimer # h}

\* History of the notifications accepted for one path of one folder, from a
\* notification that found the folder quiet (nothing pending, no timer): how
\* many there were (n), into how many groups the lapses above the debounce
\* window divide them (all other lapses being below it), the time since the
\* last one, and since the first one the number of events emitted for the
\* folder and of times they listed the path.
Burst(folder, path, n, groups, since, emitted, listed) ==
    [folder |-> folder, path |-> path, n |-> n, groups |-> groups, since |-> since,
     emitted |-> emitted, listed |-> listed]

NoBurst == Burst("", << >>, 0, 0, 0, 0, 0)

\* History record of the call or callback of the last step, with the
\* watched folders, the length of the log, the listeners and the custom
\* patterns before it, and the pending changes the folder's entry holds
\* while the listeners of an emitted event run.
FwOp(op, folder, filename, started, success, error, invoked) ==
    [op |-> op, folder |-> folder, filename |-> filename, started |-> started,
     success |-> success, error |-> error, invoked |-> invoked,
     watchedBefore |-> DOMAIN watchers, logBefore |-> Len(changeLog),
     listenersBefore |-> changeListeners, customBefore |-> customIgnorePatterns,
     pendingAtEmit |-> << >>]

\* the record of a step whose listeners run while the entry holds `pending`
EmittedWith(op, pending) == [op EXCEPT !.pendingAtEmit = pending]

NoFwOp == [op |-> "none", folder |-> "", filename |-> << >>, started |-> FALSE,
           success |-> FALSE, error |-> "", invoked |-> << >>,
           watchedBefore |-> {}, logBefore |-> 0, listenersBefore |-> << >>,
           customBefore |-> << >>, pendingAtEmit |-> << >>]

InitFw ==
    /\ watchers = EmptyMap
    /\ fwTimers = {}
    /\ changeListeners = << >>
    /\ changeLog = << >>
    /\ customIgnorePatterns = << >>
    /\ fwHist = NoBurst
    /\ lastFw = NoFwOp

\* the state of the other components, which no file watcher handler touches
notFwVars == << mcpVars, gitVars, uiVars >>

Live(folder) == \E t \in fwTimers : t.folder = folder

(***************************************************************************)
(* File watcher: public API.                                               *)
(***************************************************************************)
\* watchFolder(folderPath) without the `watchers.has(folderPath)` return: a
\* second fs.watch is attached and a new entry replaces the existing one
watchFolderReplacing(folderPath) ==
    /\ IF folderPath = NoDir
       THEN /\ lastFw' = FwOp("watchFolder", folderPath, << >>, FALSE, FALSE,
                              "Folder does not exist", << >>)
            /\ UNCHANGED watchers
       ELSE IF folderPath = NotADir
       THEN /\ lastFw' = FwOp("watchFolder", folderPath, << >>, FALSE, FALSE,
                              "Path is not a directory", << >>)
            /\ UNCHANGED watchers
       ELSE /\ watchers' = MapSet(watchers, folderPath, WatcherEntry(NoTimer, << >>))
            /\ lastFw' = FwOp("watchFolder", folderPath, << >>, FALSE, TRUE, "", << >>)
    /\ UNCHANGED << fwTimers, changeListeners, changeLog, customIgnorePatterns, fwHist >>
    /\ UNCHANGED notFwVars

\* watchFolder(folderPath)
watchFolder(folderPath) ==
    /\ IF folderPath = NoDir
       THEN /\ lastFw' = FwOp("watchFolder", folderPath, << >>, FALSE, FALSE,
                              "Folder does not exist", << >>)
            /\ UNCHANGED watchers
       ELSE IF folderPath = NotADir
       THEN /\ lastFw' = FwOp("watchFolder", folderPath, << >>, FALSE, FALSE,
                              "Path is not a directory", << >>)
            /\ UNCHANGED watchers
       ELSE IF folderPath \in DOMAIN watchers
       THEN /\ lastFw' = FwOp("watchFolder", folderPath, << >>, FALSE, TRUE,
                              "Already watching this folder", << >>)
            /\ UNCHANGED watchers
       ELSE /\ watchers' = MapSet(watchers, folderPath, WatcherEntry(NoTimer, << >>))
            /\ lastFw' = FwOp("watchFolder", folderPath, << >>, FALSE, TRUE, "", << >>)
    /\ UNCHANGED << fwTimers, changeListeners, changeLog, customIgnorePatterns, fwHist >>
    /\ UNCHANGED notFwVars

\* unwatchFolder(folderPath) without its clearTimeout: the debounce Timeout
\* of the folder stays scheduled
unwatchFolderKeepingTimer(folderPath) ==
    /\ IF folderPath \in DOMAIN watchers
       THEN /\ watchers' = MapDelete(watchers, folderPath)
            /\ fwHist' = IF fwHist.folder = folderPath THEN NoBurst ELSE fwHist
            /\ lastFw' = FwOp("unwatchFolder", folderPath, << >>, FALSE, TRUE, "", << >>)
            /\ UNCHANGED fwTimers
       ELSE /\ lastFw' = FwOp("unwatchFolder", folderPath, << >>, FALSE, FALSE, "", << >>)
            /\ UNCHANGED << watchers, fwTimers, fwHist >>
    /\ UNCHANGED << changeListeners, changeLog, customIgnorePatterns >>
    /\ UNCHANGED notFwVars

\* unwatchFolder(folderPath)
unwatchFolder(folderPath) ==
    /\ IF folderPath \in DOMAIN watchers
       THEN /\ fwTimers' = IF watchers[folderPath].debounceTimer # NoTimer
                           THEN clearTimeout(fwTimers, watchers[folderPath].debounceTimer)
                           ELSE fwTimers
            /\ watchers' = MapDelete(watchers, folderPath)
            /\ fwHist' = IF fwHist.folder = folderPath THEN NoBurst ELSE fwHist
            /\ lastFw' = FwOp("unwatchFolder", folderPath, << >>, FALSE, TRUE, "", << >>)
       ELSE /\ lastFw' = FwOp("unwatchFolder", folderPath, << >>, FALSE, FALSE, "", << >>)
            /\ UNCHANGED << watchers, fwTimers, fwHist >>
    /\ UNCHANGED << changeListeners, changeLog, customIgnorePatterns >>
    /\ UNCHANGED notFwVars

\* unwatchAll()
unwatchAll ==
    /\ fwTimers' = {t \in fwTimers :
                      \A f \in DOMAIN watchers :
                         watchers[f].debounceTimer = NoTimer
                         \/ t.handle # watchers[f].debounceTimer}
    /\ watchers' = EmptyMap
    /\ fwHist' = NoBurst
    /\ lastFw' = FwOp("unwatchAll", "", << >>, FALSE, TRUE, "", << >>)
    /\ UNCHANGED << changeListeners, changeLog, customIgnorePatterns >>
    /\ UNCHANGED notFwVars

\* setIgnorePatterns(patterns)
setIgnorePatterns(patterns) ==
    /\ customIgnorePatterns' = patterns
    /\ lastFw' = NoFwOp
    /\ UNCHANGED << watchers, fwTimers, changeListeners, changeLog, fwHist >>
    /\ UNCHANGED notFwVars

\* onChange(callback)
onChange(callback) ==
    /\ changeListeners' = SetAdd(changeListeners, callback)
    /\ lastFw' = NoFwOp
    /\ UNCHANGED << watchers, fwTimers, changeLog, customIgnorePatterns, fwHist >>
    /\ UNCHANGED notFwVars

\* the unsubscribe function onChange returned
offChange(callback) ==
    /\ callback \in Range(changeListeners)
    /\ changeListeners' = SeqWithout(changeListeners, callback)
    /\ lastFw' = NoFwOp
    /\ UNCHANGED << watchers, fwTimers, changeLog, customIgnorePatterns, fwHist >>
    /\ UNCHANGED notFwVars

(***************************************************************************)
(* File watcher: the fs.watch callback and the debounce timer.             *)
(***************************************************************************)
\* the fs.watch callback passes the filter: the notification is accepted
Accepted(filename) ==
    /\ filename # pNone
    /\ ~shouldIgnore(filename, customIgnorePatterns)
    /\ hasWatchedExtension(filename)

\* the callback without its clearTimeout: the Timeout it replaces stays scheduled
clearDebounceSkipped(entry) == fwTimers

\* if (entry.debounceTimer) clearTimeout(entry.debounceTimer)
clearDebounce(entry) ==
    IF entry.debounceTimer # NoTimer
    THEN clearTimeout(fwTimers, entry.debounceTimer)
    ELSE fwTimers

\* the history after an accepted notification for filename in folderPath
BurstAccepted(folderPath, filename) ==
    LET quiet == watchers[folderPath].pendingChanges = << >> /\ ~Live(folderPath)
        fresh == IF quiet THEN Burst(folderPath, filename, 1, 1, 0, 0, 0) ELSE NoBurst
    IN  IF fwHist.n > 0 /\ fwHist.folder # folderPath
        THEN fwHist
        ELSE IF /\ fwHist.n > 0
                /\ fwHist.path = filename
                /\ fwHist.n < MaxBurst
                /\ fwHist.since # DEBOUNCE_MS
        THEN [fwHist EXCEPT !.n = @ + 1,
                            !.groups = IF fwHist.since > DEBOUNCE_MS THEN @ + 1 ELSE @,
                            !.since = 0]
        ELSE fresh

\* the callback with one debounce Timeout for the whole module instead of
\* one per entry: an accepted notification clears every scheduled Timeout
fsEventSharedTimer(folderPath, eventType, filename) ==
    /\ folderPath \in DOMAIN watchers
    /\ IF ~Accepted(filename)
       THEN /\ lastFw' = FwOp("fsEvent", folderPath, filename, FALSE, TRUE, "", << >>)
            /\ UNCHANGED << watchers, fwTimers, fwHist >>
       ELSE LET entry   == watchers[folderPath]
                pending == pendingSet(entry.pendingChanges, filename, eventType,
                                      customIgnorePatterns)
                free    == FreeHandles({}, MapDelete(watchers, folderPath))
                handle  == CHOOSE h \in free : \A g \in free : h <= g
            IN  /\ Len(pending) <= MaxPending
                /\ free # {}
                /\ watchers' = [watchers EXCEPT ![folderPath] =
                                   WatcherEntry(handle, pending)]
                /\ fwTimers' = {Timeout(handle, folderPath, DEBOUNCE_MS)}
                /\ fwHist' = BurstAccepted(folderPath, filename)
                /\ lastFw' = FwOp("fsEvent", folderPath, filename, TRUE, TRUE, "", << >>)
    /\ UNCHANGED << changeListeners, changeLog, customIgnorePatterns >>
    /\ UNCHANGED notFwVars

\* the callback of fs.watch(folderPath, { recursive: true }, ...)
fsEvent(folderPath, eventType, filename) ==
    /\ folderPath \in DOMAIN watchers
    /\ IF ~Accepted(filename)
       THEN /\ lastFw' = FwOp("fsEvent", folderPath, filename, FALSE, TRUE, "", << >>)
            /\ UNCHANGED << watchers, fwTimers, fwHist >>
       ELSE LET entry   == watchers[folderPath]
                pending == pendingSet(entry.pendingChanges, filename, eventType,
                                      customIgnorePatterns)
                cleared == clearDebounce(entry)
                free    == FreeHandles(cleared, MapDelete(watchers, folderPath))
                handle  == CHOOSE h \in free : \A g \in free : h <= g
            IN  /\ Len(pending) <= MaxPending
                /\ free # {}
                /\ watchers' = [watchers EXCEPT ![folderPath] =
                                   WatcherEntry(handle, pending)]
                /\ fwTimers' = cleared \cup {Timeout(handle, folderPath, DEBOUNCE_MS)}
                /\ fwHist' = BurstAccepted(folderPath, filename)
                /\ lastFw' = FwOp("fsEvent", folderPath, filename, TRUE, TRUE, "", << >>)
    /\ UNCHANGED << changeListeners, changeLog, customIgnorePatterns >>
    /\ UNCHANGED notFwVars

\* the same callback when nothing is pending for the folder
fsEventAlone(folderPath, eventType, filename) ==
    /\ folderPath \in DOMAIN watchers
    /\ watchers[folderPath].pendingChanges = << >>
    /\ fsEvent(folderPath, eventType, filename)

\* the closure of setTimeout with emitChanges called before
\* entry.pendingChanges.clear(): the listeners run while the entry still
\* holds the changes of the event
debounceFireClearingLate(handle) ==
    /\ \E t \in fwTimers :
          /\ t.handle = handle
          /\ t.due = 0
          /\ t.folder \in DOMAIN watchers
          /\ fwTimers' = fwTimers \ {t}
          /\ LET changes == watchers[t.folder].pendingChanges
                 event   == FileChangeEvent(t.folder, changes)
             IN  /\ watchers' = [watchers EXCEPT ![t.folder].pendingChanges = << >>]
                 /\ IF changes = << >>
                    THEN /\ UNCHANGED << changeLog, fwHist >>
                         /\ lastFw' = FwOp("debounce", t.folder, << >>, FALSE, TRUE, "", << >>)
                    ELSE /\ Len(changeLog) < MaxChangeLog
                         /\ changeLog' = Append(changeLog, event)
                         /\ fwHist' =
                              IF fwHist.folder = t.folder
                              THEN [fwHist EXCEPT
                                      !.emitted = @ + 1,
                                      !.listed = @ + Cardinality(
                                          {i \in DOMAIN changes :
                                              changes[i].path = fwHist.path})]
                              ELSE fwHist
                         /\ lastFw' = EmittedWith(
                                FwOp("debounce", t.folder, << >>, FALSE, TRUE, "",
                                     << notifyChange(changeListeners, Throwing) >>),
                                changes)
    /\ UNCHANGED << changeListeners, customIgnorePatterns >>
    /\ UNCHANGED notFwVars

\* The debounce Timeout fires: the closure of setTimeout copies and clears
\* the entry's pendingChanges and calls emitChanges.  (Every scheduled
\* Timeout belongs to an entry of `watchers`: the callback and unwatchFolder
\* clear the one they replace or drop.)
debounceFire(handle) ==
    /\ \E t \in fwTimers :
          /\ t.handle = handle
          /\ t.due = 0
          /\ t.folder \in DOMAIN watchers
          /\ fwTimers' = fwTimers \ {t}
          /\ LET changes == watchers[t.folder].pendingChanges
                 cleared == << >>       \* entry.pendingChanges.clear()
                 event   == FileChangeEvent(t.folder, changes)
             IN  /\ watchers' = [watchers EXCEPT ![t.folder].pendingChanges = cleared]
                 /\ IF changes = << >>
                    THEN \* if (changes.size === 0) return
                         /\ UNCHANGED << changeLog, fwHist >>
                         /\ lastFw' = FwOp("debounce", t.folder, << >>, FALSE, TRUE, "", << >>)
                    ELSE /\ Len(changeLog) < MaxChangeLog
                         /\ changeLog' = Append(changeLog, event)
                         /\ fwHist' =
                              IF fwHist.folder = t.folder
                              THEN [fwHist EXCEPT
                                      !.emitted = @ + 1,
                                      !.listed = @ + Cardinality(
                                          {i \in DOMAIN changes :
                                              changes[i].path = fwHist.path})]
                              ELSE fwHist
                         /\ lastFw' = EmittedWith(
                                FwOp("debounce", t.folder, << >>, FALSE, TRUE, "",
                                     << notifyChange(changeListeners, Throwing) >>),
                                cleared)
    /\ UNCHANGED << changeListeners, customIgnorePatterns >>
    /\ UNCHANGED notFwVars

\* TimeStep milliseconds pass.  A Timeout that is due fires before time
\* passes on.
advance ==
    /\ \A t \in fwTimers : t.due > 0
    /\ fwTimers # {} \/ (fwHist.n > 0 /\ fwHist.since < Long)
    /\ fwTimers' = {Timeout(t.handle, t.folder, t.due - TimeStep) : t \in fwTimers}
    /\ fwHist' = IF fwHist.n > 0 /\ fwHist.since < Long
                 THEN [fwHist EXCEPT !.since = @ + TimeStep]
                 ELSE fwHist
    /\ lastFw' = NoFwOp
    /\ UNCHANGED << watchers, changeListeners, changeLog, customIgnorePatterns >>
    /\ UNCHANGED notFwVars

\* The runs that explore the debounce: two folders, one of which reports
\* three file names and the other one.
FwPaths == {pApp, pSecretsMake, pNodeModules}

NextFw ==
    \/ \E f \in FwFolders \cup {NoDir, NotADir} : watchFolder(f)
    \/ \E f \in FwFolders : unwatchFolder(f)
    \/ unwatchAll
    \/ \E p \in FwPaths : fsEvent("fA", "change", p)
    \/ fsEvent("fB", "change", pApp)
    \/ \E h \in 1..MaxTimers : debounceFire(h)
    \/ advance

\* The runs that explore the public API: every call with every kind of
\* argument, listeners, and one file name reported.
NextFwApi ==
    \/ \E f \in FwFolders \cup {NoDir, NotADir} : watchFolder(f)
    \/ \E f \in FwFolders \cup {NoDir} : unwatchFolder(f)
    \/ unwatchAll
    \/ \E c \in Callbacks : onChange(c)
    \/ \E c \in Callbacks : offChange(c)
    \/ \E f \in FwFolders : fsEvent(f, "change", pApp)
    \/ \E h \in 1..MaxTimers : debounceFire(h)
    \/ advance

\* The runs that explore the filter: one folder, every kind of file name
\* and a custom pattern, one notification per debounce window.  The filter
\* does not read the event type: every name is reported as a change and one
\* with every event type.
FilterPaths == {pApp, pUpper, pMakefile, pSecretsJson, pNodeModules, pOutput, pPng,
                pEnv, pPem, pTmp, pNone}
CustomSets == {<< >>, << tmpPattern >>}

NextFwFilter ==
    \/ watchFolder("fA")
    \/ \E ps \in CustomSets : setIgnorePatterns(ps)
    \/ \E p \in FilterPaths : fsEventAlone("fA", "change", p)
    \/ \E e \in EventTypes : fsEventAlone("fA", e, pApp)
    \/ \E h \in 1..MaxTimers : debounceFire(h)
    \/ advance

(***************************************************************************)
(* Properties of the file watcher.                                         *)
(***************************************************************************)
\* the path has a segment equal to or prefixed by one of the patterns
IgnoredSegment(path, patterns) ==
    \E i \in DOMAIN split(path) : \E j \in DOMAIN patterns :
        startsWith(split(path)[i], patterns[j])

\* the file's extension is one of the watched set, compared without case, or
\* the file has none and bears one of the known extensionless names
WatchedKind(path) ==
    \/ toLowerCase(extname(path)) \in WATCHED_EXTENSIONS
    \/ extname(path) = << >> /\ basename(path) \in ConventionFiles

\* the files listed by the events of the change log
ListedFiles == UNION {Range(changeLog[k].files) : k \in DOMAIN changeLog}

\* C7: the notifications accepted for one path of one watched folder, each
\* less than the debounce window after the previous one, produce exactly one
\* FileChangeEvent, which lists the path once; each more than the window
\* after the previous one, they produce one event each.  In general: with
\* the notifications divided into groups by the lapses above the window, the
\* events emitted for the folder are as many as the groups (less the group
\* whose timer is still running) and each lists the path once.
C7_OneEventPerGroup ==
    fwHist.n > 0 =>
        /\ fwHist.emitted = fwHist.groups - (IF Live(fwHist.folder) THEN 1 ELSE 0)
        /\ fwHist.listed = fwHist.emitted

\* C7, the case reached: three notifications of one path, the second within
\* the window of the first and the third more than a window later, have
\* produced two events, each listing the path once
C7_RapidThenSpaced ==
    /\ fwHist.n = 3
    /\ fwHist.groups = 2
    /\ fwHist.emitted = 2
    /\ fwHist.listed = 2
    /\ ~Live(fwHist.folder)
    /\ Len(changeLog) = 2

\* C8: no FileChangeEvent lists a path with a segment equal to or prefixed
\* by an ignore pattern (the default list and the custom list in force when
\* the notification arrived), nor a file whose extension is outside the
\* watched set unless it bears a known extensionless name; and a
\* notification of such a path, or of no path, starts no debounce timer.
C8_FilteredNeverListed ==
    /\ \A f \in ListedFiles :
          /\ ~IgnoredSegment(f.path, DEFAULT_IGNORE_PATTERNS \o f.customAt)
          /\ WatchedKind(f.path)
    /\ (/\ lastFw.op = "fsEvent"
        /\ \/ lastFw.filename = pNone
           \/ IgnoredSegment(lastFw.filename,
                             DEFAULT_IGNORE_PATTERNS \o lastFw.customBefore)
           \/ ~WatchedKind(lastFw.filename)) =>
            /\ ~lastFw.started
            /\ ~Live(lastFw.folder)

\* C8, the case reached: after an event was emitted, a notification of a
\* path whose segment is only prefixed by a default pattern, with a custom
\* list in force, started no timer
C8_PrefixedPathDropped ==
    /\ lastFw.op = "fsEvent"
    /\ lastFw.filename = pOutput
    /\ lastFw.customBefore = << tmpPattern >>
    /\ ~lastFw.started
    /\ ~Live("fA")
    /\ changeLog # << >>

\* C9: a notification of a file whose name or path matches a secrets
\* pattern, and which no ignore pattern excludes, is accepted, and the event
\* that lists the file has sensitive: true.
C9_SecretsTaggedNeverRejected ==
    /\ (/\ lastFw.op = "fsEvent"
        /\ isPrivacySensitive(lastFw.filename)
        /\ ~IgnoredSegment(lastFw.filename,
                           DEFAULT_IGNORE_PATTERNS \o lastFw.customBefore)) =>
            lastFw.started
    /\ \A f \in ListedFiles : isPrivacySensitive(f.path) => f.sensitive

\* C9, the case reached: a file under a folder named secrets is listed with
\* sensitive: true
C9_SecretsFolderTagged ==
    \E f \in ListedFiles : f.path = pSecretsJson /\ f.sensitive

\* C10: unwatchFolder for a folder that is not watched returns a success
\* result and leaves the watched set, the change log and the listeners
\* unchanged.
C10_UnwatchUnwatchedSucceeds ==
    (lastFw.op = "unwatchFolder" /\ lastFw.folder \notin lastFw.watchedBefore) =>
        /\ lastFw.success
        /\ DOMAIN watchers = lastFw.watchedBefore
        /\ Len(changeLog) = lastFw.logBefore
        /\ changeListeners = lastFw.listenersBefore

\* C10, the case reached: unwatchFolder for a folder that was watched and
\* unwatched before, with another folder watched, a listener registered and
\* an event in the log, changed none of them
C10_UnwatchedLeftAlone ==
    /\ lastFw.op = "unwatchFolder"
    /\ lastFw.folder = "fA"
    /\ lastFw.watchedBefore = {"fB"}
    /\ DOMAIN watchers = {"fB"}
    /\ lastFw.logBefore = 1
    /\ Len(changeLog) = 1
    /\ changeLog[1].folderPath = "fA"
    /\ lastFw.listenersBefore # << >>
    /\ changeListeners = lastFw.listenersBefore

\* C24: watchFolder on a folder that is already watched returns success
\* with the note 'Already watching this folder' and changes nothing: the
\* watched set and each entry (its OS watcher, its pending changes, its
\* debounce timer), the scheduled timers, the log, the listeners and the
\* patterns.  So the changes pending at the call are emitted once: the
\* events emitted for a run of notifications of one path are as many as its
\* groups, whatever watchFolder calls fall in between.
C24_SecondWatchIsNoOp ==
    /\ [][ \A f \in FwFolders :
              (f \in DOMAIN watchers /\ watchFolder(f)) =>
                  /\ lastFw'.success
                  /\ lastFw'.error = "Already watching this folder"
                  /\ UNCHANGED << watchers, fwTimers, changeLog, changeListeners,
                                  customIgnorePatterns >>
         ]_vars
    /\ [](fwHist.n > 0 =>
            /\ fwHist.emitted = fwHist.groups - (IF Live(fwHist.folder) THEN 1 ELSE 0)
            /\ fwHist.listed = fwHist.emitted)

\* C24 witness: watchFolder has just returned the already-watching note for
\* a folder with two changes pending and its debounce timer half-way.
C24_SecondWatchWhilePending ==
    /\ lastFw.op = "watchFolder"
    /\ lastFw.folder = "fA"
    /\ lastFw.success
    /\ lastFw.error = "Already watching this folder"
    /\ Len(watchers["fA"].pendingChanges) = 2
    /\ \E t \in fwTimers :
          /\ t.folder = "fA"
          /\ t.handle = watchers["fA"].debounceTimer
          /\ t.due = TimeStep

\* the debounce Timeouts scheduled for a folder
TimersOf(scheduled, folder) == {t \in scheduled : t.folder = folder}

\* C30: unwatchFolder(f) on a watched folder removes the entry of f with the
\* changes accumulated in it and leaves no debounce Timeout of f scheduled,
\* and the entries, pending changes and Timeouts of every other folder and
\* the log are as before; no Timeout is ever scheduled for a folder that is
\* not watched; every FileChangeEvent emitted names a folder watched at that
\* time; and a folder watched again starts with nothing pending and no
\* Timeout.
C30_UnwatchSilencesFolder ==
    /\ [](\A t \in fwTimers : t.folder \in DOMAIN watchers)
    /\ [][ /\ \A f \in FwFolders :
                (f \in DOMAIN watchers /\ unwatchFolder(f)) =>
                    /\ f \notin DOMAIN watchers'
                    /\ TimersOf(fwTimers', f) = {}
                    /\ lastFw'.success
                    /\ changeLog' = changeLog
                    /\ \A g \in DOMAIN watchers \ {f} :
                          /\ g \in DOMAIN watchers'
                          /\ watchers'[g] = watchers[g]
                          /\ TimersOf(fwTimers', g) = TimersOf(fwTimers, g)
           /\ Len(changeLog') > Len(changeLog) =>
                  /\ changeLog'[Len(changeLog')].folderPath \in DOMAIN watchers
                  /\ SubSeq(changeLog', 1, Len(changeLog)) = changeLog
           /\ \A f \in FwFolders :
                (f \notin DOMAIN watchers /\ f \in DOMAIN watchers') =>
                    /\ watchers'[f].pendingChanges = << >>
                    /\ TimersOf(fwTimers', f) = {}
         ]_vars

\* C30 witness: unwatchFolder("fA") has just returned with nothing logged so
\* far, fA is no longer watched and has no Timeout, and fB still has one
\* path pending and its Timeout half-way through the debounce window.
C30_OtherFolderStillPending ==
    /\ lastFw.op = "unwatchFolder"
    /\ lastFw.folder = "fA"
    /\ lastFw.success
    /\ "fA" \notin DOMAIN watchers
    /\ TimersOf(fwTimers, "fA") = {}
    /\ "fB" \in DOMAIN watchers
    /\ Len(watchers["fB"].pendingChanges) = 1
    /\ \E t \in fwTimers :
          /\ t.folder = "fB"
          /\ t.handle = 2
          /\ t.handle = watchers["fB"].debounceTimer
          /\ t.due = TimeStep
    /\ changeLog = << >>

\* the paths a list of changes or of an event's files names
PathsOf(files) == {files[i].path : i \in DOMAIN files}

\* C31: a notification in a watched folder (the step recorded as "fsEvent"
\* for that folder) leaves the entry (pending
\* changes, stored Timeout) and the scheduled Timeouts of every other
\* watched folder as they were; a Timeout that fires (the step recorded as
\* "debounce") drains the entry of its own folder only and the event lists
\* the paths pending in that entry; so
\* an event of fB, under which only pApp is ever notified, never lists a
\* path notified under fA alone.
C31_DebouncePerFolder ==
    /\ [][ lastFw'.op \in {"fsEvent", "debounce"} =>
              /\ \A g \in DOMAIN watchers \ {lastFw'.folder} :
                    /\ g \in DOMAIN watchers'
                    /\ watchers'[g] = watchers[g]
                    /\ TimersOf(fwTimers', g) = TimersOf(fwTimers, g)
              /\ Len(changeLog') > Len(changeLog) =>
                    LET event == changeLog'[Len(changeLog')]
                    IN  /\ lastFw'.op = "debounce"
                        /\ event.folderPath = lastFw'.folder
                        /\ PathsOf(event.files) =
                               PathsOf(watchers[lastFw'.folder].pendingChanges)
         ]_vars
    /\ [](\A i \in DOMAIN changeLog :
             changeLog[i].folderPath = "fB" => PathsOf(changeLog[i].files) = {pApp})

\* C31 witness: a notification in fA has just started fA's Timeout while
\* fB, notified half a window earlier, keeps its pending path and its
\* Timeout half-way through the window.
C31_OtherFolderTimerNotReset ==
    /\ lastFw.op = "fsEvent"
    /\ lastFw.folder = "fA"
    /\ lastFw.started
    /\ lastFw.filename = pSecretsMake
    /\ {"fA", "fB"} \subseteq DOMAIN watchers
    /\ PathsOf(watchers["fB"].pendingChanges) = {pApp}
    /\ PathsOf(watchers["fA"].pendingChanges) = {pSecretsMake}
    /\ \E t \in fwTimers :
          t.folder = "fB" /\ t.handle = watchers["fB"].debounceTimer /\ t.due = TimeStep
    /\ \E t \in fwTimers :
          t.folder = "fA" /\ t.handle = watchers["fA"].debounceTimer /\ t.due = DEBOUNCE_MS

\* The runs that explore the drain: one folder, two file names reported
\* with either event type in any order, a listener, and time.
DrainPaths == {pApp, pSecretsMake}

NextDrain ==
    \/ watchFolder("fA")
    \/ onChange("cbA")
    \/ \E e \in EventTypes, p \in DrainPaths : fsEvent("fA", e, p)
    \/ \E h \in 1..MaxTimers : debounceFire(h)
    \/ advance

\* an accepted notification (eventType, filename) turns the pending changes
\* `before` into `after`: the name is listed once with the type just
\* reported, every other name keeps its type, and no name is listed twice
Accumulated(before, after, eventType, filename) ==
    /\ PathsOf(after) = PathsOf(before) \cup {filename}
    /\ Len(after) = Cardinality(PathsOf(after))
    /\ \A i \in DOMAIN after : after[i].path = filename => after[i].type = eventType
    /\ \A i \in DOMAIN before :
          before[i].path # filename =>
              \E j \in DOMAIN after :
                  after[j].path = before[i].path /\ after[j].type = before[i].type

\* C32: every accepted notification is added to the pending changes of its
\* folder (its path once, with the type last reported) and leaves a Timeout
\* scheduled; when the Timeout fires, the pending changes are not empty, an
\* event is logged that lists exactly them, each path with its type, with
\* fileCount the number of files listed, and the entry holds no pending
\* change both while the listeners run and after the step, so that a later
\* notification starts the changes of the next event.
C32_DrainLosesNothing ==
    [][ /\ \A e \in EventTypes, p \in DrainPaths :
              fsEvent("fA", e, p) =>
                  /\ Accumulated(watchers["fA"].pendingChanges,
                                 watchers'["fA"].pendingChanges, e, p)
                  /\ TimersOf(fwTimers', "fA") # {}
        /\ lastFw'.op = "debounce" =>
              LET f       == lastFw'.folder
                  changes == watchers[f].pendingChanges
                  event   == changeLog'[Len(changeLog')]
              IN  /\ changes # << >>
                  /\ changeLog' = Append(changeLog, event)
                  /\ event.folderPath = f
                  /\ event.fileCount = Len(event.files)
                  /\ event.fileCount >= 1
                  /\ Len(event.files) = Len(changes)
                  /\ \A i \in DOMAIN changes :
                        /\ event.files[i].path = changes[i].path
                        /\ event.files[i].type = changes[i].type
                  /\ lastFw'.pendingAtEmit = << >>
                  /\ watchers'[f].pendingChanges = << >>
      ]_vars

\* C32 witness: a Timeout has just fired for the second time and the
\* listener was invoked; the first event lists both paths, pApp as renamed,
\* the second lists the one path reported after the first drain, and
\* nothing is pending.
C32_TwoDrainsNothingPending ==
    /\ lastFw.op = "debounce"
    /\ lastFw.invoked = << << "cbA" >> >>
    /\ lastFw.pendingAtEmit = << >>
    /\ Len(changeLog) = 2
    /\ changeLog[1].fileCount = 2
    /\ changeLog[1].files[1].path = pApp
    /\ changeLog[1].files[1].type = "rename"
    /\ changeLog[1].files[2].path = pSecretsMake
    /\ changeLog[2].fileCount = 1
    /\ changeLog[2].files[1].path = pSecretsMake
    /\ watchers["fA"].pendingChanges = << >>

(***************************************************************************)
(* The IPC bridge of the main process and the stop calls of the            *)
(* components.                                                             *)
(***************************************************************************)
\* ipcMain.handle('mcp:stop'): the result sent to the renderer for an outcome
\* of `await mcpServer.stopServer()` ("none": the handler has not returned)
mcpStopResult(outcome) ==
    CASE outcome = "resolved" -> [returned |-> TRUE, success |-> TRUE]
      [] outcome = "rejected" -> [returned |-> TRUE, success |-> FALSE]
      [] OTHER                -> [returned |-> FALSE, success |-> FALSE]

\* ipcMain.handle('git:stopWatching'): `await gitWatcher.stopWatching()` with
\* no try/catch, then { success: true }
gitStopResult(outcome) ==
    IF outcome = "resolved" THEN [returned |-> TRUE, success |-> TRUE]
    ELSE [returned |-> FALSE, success |-> FALSE]

\* the module state of the MCP server and of the git watcher
mcpState == << server, serverPort, sessions, streams, progressListeners, progressLog >>
gitState == << watchState, timers, commitListeners, commitLog >>

\* The runs that explore the stop calls of the MCP server and the git
\* watcher side by side: servers started and stopped with an SSE stream,
\* watches started and stopped, listeners registered.
NextStop ==
    \/ \E port \in Ports, bindOk \in BOOLEAN : startServer(port, bindOk)
    \/ stopServer
    \/ closeDone
    \/ getSse
    \/ \E k \in 1..MaxStreams : streamClose(k)
    \/ onProgress("cbA")
    \/ onCommit("cbA")
    \/ \E r \in Repos : startWatching(r)
    \/ \E i \in 1..MaxStarts, valid \in BOOLEAN : startValidated(i, valid)
    \/ \E i \in 1..MaxStarts, ok \in BOOLEAN : startHashed(i, ok)
    \/ stopWatching

\* C11: stopServer() called when no server exists and stopWatching() called
\* when nothing is watched complete without throwing, change nothing of the
\* module state (server, port, session registry, streams, watch state,
\* timers, logs, listeners), and the bridge returns success: true for both.
C11_StopWhenStoppedIsNoOp ==
    [][ /\ (server = "null" /\ stopServer) =>
              /\ UNCHANGED mcpState
              /\ mcpStopResult(lastOp'.status) = [returned |-> TRUE, success |-> TRUE]
        /\ (watchState = NullState /\ stopWatching) =>
              /\ UNCHANGED gitState
              /\ gitStopResult(lastGit'.result) = [returned |-> TRUE, success |-> TRUE]
      ]_vars

\* C11 witness: after a server was started and stopped and listeners were
\* registered, stopServer() has just resolved with no server existing, and
\* stopWatching() has just returned in a process that never watched.
C11_BothStoppedTwice ==
    /\ lastOp.op = "stopServer"
    /\ lastOp.status = "resolved"
    /\ server = "null"
    /\ uuidCount > 0
    /\ progressListeners # << >>
    /\ lastGit.op = "stopWatching"
    /\ watchState = NullState
    /\ timerCount = 0
    /\ commitListeners # << >>

\* stopWatching() has returned: no poll timer is left
GitTimersReleased == lastGit.op = "stopWatching" => timers = {}

\* unwatchFolder() or unwatchAll() has returned: no debounce timer of a
\* folder it stopped is left
FwTimersReleased ==
    /\ lastFw.op = "unwatchFolder" => \A t \in fwTimers : t.folder # lastFw.folder
    /\ lastFw.op = "unwatchAll" => fwTimers = {}

\* stopServer() has resolved, at once or from the close callback: no
\* keep-alive timer of a push stream is left
McpTimersReleased ==
    (lastOp.op \in {"stopServer", "closeDone"} /\ lastOp.status = "resolved") =>
        \A k \in DOMAIN streams : ~streams[k].keepalive

\* C19: when a stop call has returned (stopServer, stopWatching,
\* unwatchFolder, unwatchAll), no timer of the stopped component is still
\* scheduled: no poll timer, no debounce timer of a folder no longer
\* watched, no keep-alive timer of a push stream.
C19_StopReleasesTimers ==
    /\ GitTimersReleased
    /\ FwTimersReleased
    /\ McpTimersReleased

\* C19 witness: stopWatching() has returned on a watch whose poll timer was
\* the only one, and none is left.
C19_PollTimerCleared ==
    /\ lastGit.op = "stopWatching"
    /\ timerCount = 1
    /\ timers = {}
    /\ watchState = NullState

(***************************************************************************)
(* The life cycle of the MCP server: start, push streams, stop.            *)
(***************************************************************************)
\* ipcMain.handle('mcp:start'): the result for an outcome of
\* `await mcpServer.startServer(port || 3777)`
mcpStartResult(outcome) ==
    CASE outcome = "resolved" -> [returned |-> TRUE, success |-> TRUE]
      [] outcome = "rejected" -> [returned |-> TRUE, success |-> FALSE]
      [] OTHER                -> [returned |-> FALSE, success |-> FALSE]

\* the ports the renderer asks for
LifePorts == {3777, 3778}

\* The runs that explore the life cycle: servers started on either port,
\* push streams of both transports opened, replaced, dropped by DELETE and
\* closed by either side, a progress event logged, and stops.
NextLife ==
    \/ \E port \in LifePorts, bindOk \in BOOLEAN : startServer(port, bindOk)
    \/ stopServer
    \/ closeDone
    \/ \E h \in Headers, a \in BOOLEAN : getMcp(h, a)
    \/ \E h \in Headers : deleteMcp(h)
    \/ getSse
    \/ \E k \in 1..MaxStreams : clientClose(k)
    \/ \E k \in 1..MaxStreams : responseClose(k)
    \/ onProgress("cbA")
    \/ callHandler(rLogFixed, 1)

\* C12: when stopServer() has run on an existing server, the session
\* registry is empty and no push stream opened on the server is still open:
\* each was closed by its client or ended by the server.
C12_StopEndsEveryStream ==
    (lastOp.op = "stopServer" /\ lastOp.status = "pending") =>
        /\ sessions = EmptyMap
        /\ \A k \in DOMAIN streams : streams[k].state # "open"

\* C12 witness: a stop has ended a GET /sse stream and a GET /mcp stream
\* that their sessions still held.
C12_BothTransportsEnded ==
    /\ lastOp.op = "stopServer"
    /\ lastOp.status = "pending"
    /\ sessions = EmptyMap
    /\ \E j, k \in DOMAIN streams :
          /\ streams[j].kind = "sse" /\ streams[j].state = "ending"
          /\ streams[k].kind = "mcp" /\ streams[k].state = "ending"

\* C13: startServer(port) called while a server object exists (listening or
\* closing; a server that is starting is never observed by another call) is
\* rejected, the bridge returns success: false, and the server, its port,
\* the session registry, the streams, the progress log and the listeners
\* are unchanged.
C13_StartWhileExistingRejected ==
    [][ \A port \in LifePorts, bindOk \in BOOLEAN :
          (server # "null" /\ startServer(port, bindOk)) =>
              /\ UNCHANGED mcpState
              /\ lastOp'.status = "rejected"
              /\ mcpStartResult(lastOp'.status) = [returned |-> TRUE, success |-> FALSE]
      ]_vars

\* C13 witness: a start has just been rejected while the server started on
\* the other port is still closing, with a stream not yet closed, a logged
\* event and a listener.
C13_RejectedWhileClosing ==
    /\ lastOp.op = "startServer"
    /\ lastOp.status = "rejected"
    /\ server = "closing"
    /\ serverPort = 3778
    /\ \E k \in DOMAIN streams : streams[k].state # "closed"
    /\ progressLog # << >>
    /\ progressListeners # << >>

\* server.close() keeps the connections that are sending a request: a
\* POST /mcp whose head was on its way when stopServer() ran reaches
\* handleRequest while the server is closing.
postMcpArriveClosing(header) ==
    /\ server = "closing"
    /\ Len(posts) < MaxPosts
    /\ LET g == getOrCreateSession(header)
       IN  /\ g.minted => uuidCount < MaxUuid
           /\ sessions' = g.sessions
           /\ uuidCount' = IF g.minted THEN uuidCount + 1 ELSE uuidCount
           /\ posts' = Append(posts, Post("/mcp", g.sessionId, header,
                                          header \in DOMAIN sessions, g.minted))
    /\ lastOp' = NoOp
    /\ UNCHANGED << server, serverPort, streams, progressListeners, progressLog >>
    /\ UNCHANGED notMcpVars

\* a GET /mcp (Accept: text/event-stream) that reaches handleRequest while
\* the server is closing
getMcpClosing(header) ==
    /\ server = "closing"
    /\ LET g == getOrCreateSession(header)
           k == Len(streams) + 1
       IN  /\ Len(streams) < MaxStreams
           /\ g.minted => uuidCount < MaxUuid
           /\ uuidCount' = IF g.minted THEN uuidCount + 1 ELSE uuidCount
           /\ streams' = Append(streams, Stream("mcp", g.sessionId))
           /\ sessions' = [g.sessions EXCEPT ![g.sessionId].sseRes = k]
           /\ lastOp' = SimpleOp("GET /mcp", g.sessionId, "200", g.sessionId, << >>)
    /\ UNCHANGED << server, serverPort, progressListeners, progressLog, posts >>
    /\ UNCHANGED notMcpVars

\* The runs that explore the registry over stops and restarts: sessions
\* minted by POST /mcp and GET /mcp before a stop and while the server is
\* closing, streams closed, the close callback, and the next start.
NextRestart ==
    \/ startServer(3777, TRUE)
    \/ stopServer
    \/ closeDone
    \/ \E h \in Headers : postMcpArrive(h)
    \/ \E i \in 1..MaxPosts : postMcpBody(i, Body(TRUE, FALSE, << rInitialize >>))
    \/ \E h \in Headers : getMcp(h, TRUE)
    \/ \E k \in 1..MaxStreams : streamClose(k)
    \/ \E h \in Headers : postMcpArriveClosing(h)
    \/ \E h \in Headers : getMcpClosing(h)

\* C28: whenever no server exists the session registry is empty, and it is
\* empty when a start has just resolved: no session minted before a stop, or
\* by a request handled while the server was closing, is known to the next
\* server.
C28_NoSessionWhileStopped ==
    /\ server = "null" => sessions = EmptyMap
    /\ (lastOp.op = "startServer" /\ lastOp.status = "resolved") => sessions = EmptyMap

\* C28 witness: the close callback has just run on a server that had minted
\* two sessions and opened a push stream before the stop, and the registry
\* is empty.
C28_StoppedWithEmptyRegistry ==
    /\ lastOp.op = "closeDone"
    /\ server = "null"
    /\ uuidCount = 2
    /\ streams # << >>
    /\ sessions = EmptyMap

\* C29: the close of a GET /mcp stream keeps every session in the registry
\* and detaches that stream only: a session that holds another stream, one a
\* later GET /mcp attached, still holds it.  The close of a GET /sse stream
\* removes its session.
C29_CloseDetachesOwnStream ==
    [][ \A k \in DOMAIN streams :
          streamClose(k) =>
              IF streams[k].kind = "mcp"
              THEN /\ DOMAIN sessions' = DOMAIN sessions
                   /\ \A id \in DOMAIN sessions :
                         sessions'[id].sseRes =
                             IF sessions[id].sseRes = k THEN NoStream
                             ELSE sessions[id].sseRes
              ELSE streams[k].sid \notin DOMAIN sessions'
      ]_vars

\* C29 witness: a GET /mcp stream and a GET /sse stream have closed; the
\* session of the first is in the registry with no stream attached, the
\* session of the second is gone.
C29_McpSessionKeptSseSessionGone ==
    \E j, k \in DOMAIN streams :
        /\ streams[j].kind = "mcp" /\ streams[j].state = "closed"
        /\ streams[j].sid \in DOMAIN sessions
        /\ sessions[streams[j].sid].sseRes = NoStream
        /\ streams[k].kind = "sse" /\ streams[k].state = "closed"
        /\ streams[k].sid \notin DOMAIN sessions

\* The runs of the life cycle in which no client closes a push stream on
\* its own: a stream closes only after the server has ended it.
NextLive ==
    \/ \E port \in LifePorts, bindOk \in BOOLEAN : startServer(port, bindOk)
    \/ stopServer
    \/ closeDone
    \/ \E h \in Headers, a \in BOOLEAN : getMcp(h, a)
    \/ \E h \in Headers : deleteMcp(h)
    \/ getSse
    \/ \E k \in 1..MaxStreams : responseClose(k)

\* C20: every stopServer() call on an existing server eventually resolves,
\* so that mcp:stop returns its result, with the server no longer existing
\* (server === null), whatever requests came before, when no client closes
\* its stream on its own.
C20_StopEventuallyReturns ==
    (server = "closing") ~> (server = "null" /\ mcpStopResult("resolved").returned)

\* C20 witness: a stop has resolved from the close callback after the server
\* ended two push streams and their connections closed.
C20_StopReturnedAfterStreams ==
    /\ lastOp.op = "closeDone"
    /\ lastOp.status = "resolved"
    /\ server = "null"
    /\ Len(streams) = 2
    /\ \A k \in DOMAIN streams : streams[k].state = "closed"

(***************************************************************************)
(* The three producers and their listeners.                                *)
(***************************************************************************)
\* The runs that explore the delivery of events: with each producer a
\* throwing listener and then another one registered, a log_progress call,
\* one watch of a repository in which commits land and whose timer fires
\* when no tick is in progress, and one watched folder that reports a file
\* once per debounce window.
NextListeners ==
    \/ onProgress("cbB")
    \/ progressListeners # << >> /\ onProgress("cbA")
    \/ callHandler(rLogFixed, 1)
    \/ onCommit("cbB")
    \/ commitListeners # << >> /\ onCommit("cbA")
    \/ timerCount = 0 /\ starts = << >> /\ startWatching("rA")
    \/ startValidated(1, TRUE)
    \/ startHashed(1, TRUE)
    \/ commitLands("rA")
    \/ ticks = << >> /\ tickFire(1)
    \/ tickRevParsed(1, TRUE)
    \/ tickLogged(1, TRUE)
    \/ tickDiffed(1)
    \/ tickBranched(1)
    \/ onChange("cbB")
    \/ changeListeners # << >> /\ onChange("cbA")
    \/ watchFolder("fA")
    \/ fsEventAlone("fA", "change", pApp)
    \/ \E h \in 1..MaxTimers : debounceFire(h)
    \/ advance

\* C21: when an event is emitted, every listener registered with the
\* producer is invoked with it, the throwing ones and those after them
\* included, the event is in the log, and the producer's operation
\* completes: the tool call returns its success response, the poll tick goes
\* on to the next commit or returns, the debounce drain has emptied the
\* folder's pending changes.
C21_ListenerFaultIsolated ==
    /\ (lastOp.op = "handleMcpRequest" /\ lastOp.invoked # << >>) =>
          /\ lastOp.invoked = << lastOp.listenersAt >>
          /\ Len(progressLog) = lastOp.logBefore + 1
          /\ lastOp.status = "returned"
          /\ Len(lastOp.reply) = 1
          /\ lastOp.reply[1].t = "result"
    /\ lastGit.invoked # << >> =>
          /\ lastGit.invoked = << lastGit.listenersAt >>
          /\ commitLog # << >>
          /\ lastGit.op = "emit" =>
                \E i \in DOMAIN ticks : ticks[i].pc = "diff" /\ ticks[i].todo # << >>
          /\ lastGit.op = "pollForCommits" => lastGit.result = "returned"
    /\ (lastFw.op = "debounce" /\ lastFw.invoked # << >>) =>
          /\ lastFw.invoked = << lastFw.listenersBefore >>
          /\ Len(changeLog) = lastFw.logBefore + 1
          /\ watchers[lastFw.folder].pendingChanges = << >>

\* C21 witness: with a throwing listener registered before another one in
\* each producer, a log_progress call has returned its response, a tick has
\* emitted the first of two commits and gone on to the second, and a
\* debounce drain has completed, each after invoking both listeners.
C21_ThrowerThenOther ==
    /\ lastOp.op = "handleMcpRequest"
    /\ lastOp.listenersAt = << "cbB", "cbA" >>
    /\ lastOp.invoked = << << "cbB", "cbA" >> >>
    /\ lastOp.status = "returned"
    /\ lastGit.op = "emit"
    /\ lastGit.listenersAt = << "cbB", "cbA" >>
    /\ lastGit.invoked = << << "cbB", "cbA" >> >>
    /\ Len(commitLog) = 1
    /\ lastFw.op = "debounce"
    /\ lastFw.listenersBefore = << "cbB", "cbA" >>
    /\ lastFw.invoked = << << "cbB", "cbA" >> >>
    /\ Len(changeLog) = 1

(***************************************************************************)
(* The event logs and the status calls.                                    *)
(***************************************************************************)
\* getStatus() of the MCP server
mcpGetStatus ==
    IF server = "null"
    THEN [running |-> FALSE, activeSessions |-> 0, totalEvents |-> Len(progressLog)]
    ELSE [running |-> TRUE, activeSessions |-> Cardinality(DOMAIN sessions),
          totalEvents |-> Len(progressLog)]

\* getStatus() of the git watcher
gitGetStatus ==
    [watching |-> watchState # NullState, totalCommits |-> Len(commitLog)]

\* getStatus() of the file watcher
fwGetStatus ==
    [watching |-> DOMAIN watchers # {}, folders |-> DOMAIN watchers,
     totalEvents |-> Len(changeLog)]

\* s is a prefix of t
IsPrefix(s, t) == Len(s) <= Len(t) /\ SubSeq(t, 1, Len(s)) = s

\* The runs that explore the logs.  The components share no state (every
\* action leaves the other components' variables unchanged), so each is
\* explored while the other two rest in their initial state: the MCP
\* server started, stopped and started again while POST /mcp requests log
\* progress; a repository watched, stopped and watched again while commits
\* land and ticks emit them; folders watched and unwatched while they report
\* a file.
McpAlone == InitGit /\ InitFw
GitAlone == InitMcp /\ InitFw
FwAlone  == InitMcp /\ InitGit

NextLogs ==
    \/ McpAlone /\ \E bindOk \in BOOLEAN : startServer(3777, bindOk)
    \/ McpAlone /\ stopServer
    \/ McpAlone /\ closeDone
    \/ McpAlone /\ \E h \in Headers : postMcpArrive(h)
    \/ McpAlone /\ \E i \in 1..MaxPosts, r \in {rLogFixed, rLogTests} :
                      postMcpBody(i, Body(TRUE, FALSE, << r >>))
    \/ McpAlone /\ getSse
    \/ McpAlone /\ \E k \in 1..MaxStreams : streamClose(k)
    \/ GitAlone /\ commitLands("rA")
    \/ GitAlone /\ stopWatching
    \/ GitAlone /\ startWatching("rA")
    \/ GitAlone /\ \E i \in 1..MaxStarts : startValidated(i, TRUE)
    \/ GitAlone /\ \E i \in 1..MaxStarts : startHashed(i, TRUE)
    \/ GitAlone /\ \E t \in 1..MaxStarts : tickFire(t)
    \/ GitAlone /\ \E i \in 1..MaxTicks : tickRevParsed(i, TRUE)
    \/ GitAlone /\ \E i \in 1..MaxTicks : tickLogged(i, TRUE)
    \/ GitAlone /\ \E i \in 1..MaxTicks : tickDiffed(i)
    \/ GitAlone /\ \E i \in 1..MaxTicks : tickBranched(i)
    \/ FwAlone /\ \E f \in FwFolders : watchFolder(f)
    \/ FwAlone /\ \E f \in FwFolders : unwatchFolder(f)
    \/ FwAlone /\ unwatchAll
    \/ FwAlone /\ \E f \in FwFolders : fsEvent(f, "change", pApp)
    \/ FwAlone /\ \E h \in 1..MaxTimers : debounceFire(h)
    \/ FwAlone /\ advance

\* C22: no step of any component removes or rewrites an entry of the
\* progress log, the commit log or the change log: the log before a step is
\* a prefix of the log after it (and so of every later log), and the
\* counters totalEvents and totalCommits of the status calls never decrease.
C22_LogsAppendOnly ==
    [][ /\ IsPrefix(progressLog, progressLog')
        /\ IsPrefix(commitLog, commitLog')
        /\ IsPrefix(changeLog, changeLog')
        /\ mcpGetStatus'.totalEvents >= mcpGetStatus.totalEvents
        /\ gitGetStatus'.totalCommits >= gitGetStatus.totalCommits
        /\ fwGetStatus'.totalEvents >= fwGetStatus.totalEvents
      ]_vars

\* C22 witness: a second watch has just been set up after a stop, and the
\* commit log still holds the event emitted during the first watch.
C22_LogKeptOverRestart ==
    /\ lastGit.op = "startWatching"
    /\ lastGit.result = "success"
    /\ timerCount = 2
    /\ timers = {2}
    /\ watchState.pollInterval = 2
    /\ commitLog = << CommitEvent("rA", Hash("rA", 2)) >>
    /\ gitGetStatus.totalCommits = 1

\* C38: a startServer(port) that could not bind is rejected, the bridge
\* returns success: false, no server exists and getStatus() reports
\* running: false with no session; a start that can bind while no server
\* exists resolves with the server listening; and getStatus() reports
\* running: true only for a server that is listening.
C38_FailedBindLeavesStopped ==
    /\ []((lastOp.op = "startServer" /\ lastOp.status = "rejected" /\ server = "null") =>
              /\ mcpStartResult(lastOp.status) = [returned |-> TRUE, success |-> FALSE]
              /\ ~mcpGetStatus.running
              /\ mcpGetStatus.activeSessions = 0)
    /\ [][ \A port \in LifePorts :
             (server = "null" /\ startServer(port, TRUE)) =>
                 /\ server' = "listening"
                 /\ serverPort' = port
                 /\ mcpStartResult(lastOp'.status) = [returned |-> TRUE, success |-> TRUE]
         ]_vars
    /\ [](mcpGetStatus.running => server = "listening")

\* C38 witness: a start on port 3778 has just failed to bind after a server
\* had run and stopped: no server exists and the status reports running:
\* false.
C38_BindFailedAfterRun ==
    /\ lastOp.op = "startServer"
    /\ lastOp.status = "rejected"
    /\ server = "null"
    /\ serverPort = 3778
    /\ uuidCount > 0
    /\ ~mcpGetStatus.running
    /\ mcpGetStatus.activeSessions = 0

(***************************************************************************)
(* Renderer: the subscriptions of the services (onMcpProgress,             *)
(* onGitCommit, onFileChange) to the channels of the preload bridge.       *)
(***************************************************************************)
\* the channels the main process forwards events on
Channels == {"mcp:progress", "git:commit", "watcher:change"}

\* an unsubscribe function: the channel and the callback it was returned for
Unsubscribe(channel, callback) == [channel |-> channel, callback |-> callback]

\* History record of the last step: the service call or the delivery, its
\* channel and callback, and the callbacks invoked for a delivered event.
UiOp(op, channel, callback, received) ==
    [op |-> op, channel |-> channel, callback |-> callback, received |-> received]

NoUiOp == UiOp("none", "", "", << >>)

InitUi ==
    /\ ipcListeners = [ch \in Channels |-> << >>]
    /\ unsubscribes = {}
    /\ lastUi = NoUiOp

\* the state of the main process, which no renderer call touches
notUiVars == << mcpVars, gitVars, fwVars >>

\* ipcRenderer.removeAllListeners(channel)
removeAllListeners(listeners, channel) == [listeners EXCEPT ![channel] = << >>]

\* onMcpProgress(callback), onGitCommit(callback), onFileChange(callback) in
\* the desktop app: api.on<Channel>(callback) adds a listener to the channel
\* with ipcRenderer.on, and the service returns an unsubscribe function.
subscribe(channel, callback) ==
    /\ Len(ipcListeners[channel]) < MaxIpcListeners
    /\ ipcListeners' = [ipcListeners EXCEPT ![channel] = Append(@, callback)]
    /\ unsubscribes' = unsubscribes \cup {Unsubscribe(channel, callback)}
    /\ lastUi' = UiOp("subscribe", channel, callback, << >>)
    /\ UNCHANGED notUiVars

\* a returned unsubscribe function is called:
\* () => api.remove<Channel>Listener()
unsubscribe(channel, callback) ==
    /\ Unsubscribe(channel, callback) \in unsubscribes
    /\ ipcListeners' = removeAllListeners(ipcListeners, channel)
    /\ lastUi' = UiOp("unsubscribe", channel, callback, << >>)
    /\ UNCHANGED unsubscribes
    /\ UNCHANGED notUiVars

\* an event the main process sent with webContents.send(channel, event)
\* reaches the renderer: every listener of the channel is invoked
ipcEvent(channel) ==
    /\ lastUi' = UiOp("event", channel, "", ipcListeners[channel])
    /\ UNCHANGED << ipcListeners, unsubscribes >>
    /\ UNCHANGED notUiVars

\* The runs that explore the subscriptions: both callbacks subscribed to and
\* unsubscribed from every channel in any order, and events on every channel.
NextUi ==
    \/ \E ch \in Channels, c \in Callbacks : subscribe(ch, c)
    \/ \E ch \in Channels, c \in Callbacks : unsubscribe(ch, c)
    \/ \E ch \in Channels : ipcEvent(ch)

\* the number of times a callback occurs in a list of listeners
Times(listeners, callback) ==
    Cardinality({i \in DOMAIN listeners : listeners[i] = callback})

\* C34: when an unsubscribe function is called, every other callback stays
\* subscribed as it was, on that channel and on the others, so that it
\* receives each later event of its channel as many times as before: once
\* for each subscription.
C34_UnsubscribeRemovesOwnCallback ==
    [][ lastUi'.op = "unsubscribe" =>
            \A ch \in Channels, c \in Callbacks :
                (ch # lastUi'.channel \/ c # lastUi'.callback) =>
                    Times(ipcListeners'[ch], c) = Times(ipcListeners[ch], c)
      ]_vars

\* C34 witness: two callbacks subscribed to the progress channel have just
\* received an event once each, after an unsubscribe on another channel.
C34_BothCallbacksReceive ==
    /\ lastUi.op = "event"
    /\ lastUi.channel = "mcp:progress"
    /\ lastUi.received = << "cbA", "cbB" >>
    /\ Unsubscribe("git:commit", "cbA") \in unsubscribes
    /\ ipcListeners["git:commit"] = << >>

(***************************************************************************)
(* Specifications.                                                         *)
(***************************************************************************)
Init == InitMcp /\ InitGit /\ InitFw /\ InitUi

SpecMcp == Init /\ [][NextMcp]_vars

SpecHandler == Init /\ [][NextHandler]_vars

SpecGit == Init /\ [][NextGit]_vars

SpecFw == Init /\ [][NextFw]_vars

SpecFwApi == Init /\ [][NextFwApi]_vars

SpecFwFilter == Init /\ [][NextFwFilter]_vars

SpecStop == Init /\ [][NextStop]_vars

SpecLife == Init /\ [][NextLife]_vars

SpecWire == Init /\ [][NextWire]_vars

SpecMessage == Init /\ [][NextMessage]_vars

SpecListeners == Init /\ [][NextListeners]_vars

SpecLogs == Init /\ [][NextLogs]_vars

SpecHealth == Init /\ [][NextHealth]_vars

SpecBatch == Init /\ [][NextBatch]_vars

SpecRestart == Init /\ [][NextRestart]_vars

SpecDrain == Init /\ [][NextDrain]_vars

SpecUi == Init /\ [][NextUi]_vars

InitEmpty == InitMcp /\ InitEmptyRepo /\ InitFw /\ InitUi

SpecEmptyRepo == InitEmpty /\ [][NextEmptyRepo]_vars

\* An ended response's connection closes and the close callback of
\* server.close() runs once no connection is left: the event loop handles
\* both as soon as they are due.
SpecLive ==
    /\ Init
    /\ [][NextLive]_vars
    /\ WF_vars(closeDone)
    /\ WF_vars(\E k \in 1..MaxStreams : responseClose(k))

====
